---- MODULE Spec2Model ----
(***************************************************************************)
(* Model of the protocol core of src/utils/protocols.py: the A2A Task      *)
(* Manager (A2ATaskManager) with its per-task locks, dead-letter queue,    *)
(* metrics and retention removal, driven by concurrent requests as         *)
(* dispatched by main.py.                                                  *)
(*                                                                         *)
(* The program is single-threaded asyncio code: a coroutine runs without   *)
(* interruption from one suspension point to the next.  Every action below *)
(* is the code of one handler between two suspension points (a lock that   *)
(* is held by somebody else, a Knowledge-Base call that goes to the        *)
(* database, the collaborator's skill handler).                            *)
(***************************************************************************)
EXTENDS Integers, Sequences, FiniteSets, TLC

\* ------------------------------------------------------------------ bounds
\* largest historyLength a tasks/get request asks for
MaxN == 2
\* largest number of intermediate (non-final) updates one handler streams
MaxUpdates == 1

\* ---------------------------------------------------------------- universe
\* concurrent requests; each runs one operation of the manager
Procs == {"p1", "p2", "p3"}
TaskIds == {"t1", "t2"}
Skills == {"echo", "nosuch"}
None == "none"

VARIABLES
    tasks,          \* A2ATaskManager._tasks: id -> task record, NoTask when absent
    task_locks,     \* A2ATaskManager._task_locks: id -> lock object (0: no entry)
    lock_count,     \* number of lock objects created so far for an id
    a2a_dlq,        \* A2ATaskManager.a2a_dlq
    metrics,        \* kb "a2a_tasks" metrics
    handlers,       \* A2ATaskRouter._handlers
    default_handler,\* A2ATaskRouter._default_handler
    pc,             \* position of each request
    op,             \* operation a request runs
    tid,            \* params.id / task_id of the request
    hl,             \* history_length of a tasks/get request
    lockref,        \* the lock object the request fetched from _get_task_lock
    holds,          \* the lock object the request holds (0: none)
    mread,          \* value returned by kb.get_metric, not yet written back
    outcome,        \* what the skill handler did: returned a result or raised
    ret,            \* what the operation returned to its caller
    sink,           \* events put on the update_queue of a sendSubscribe
    nupd,           \* intermediate updates the handler streamed so far
    may             \* the operations each client issues in this run

\* the MCP client manager (MCPClientManager)
VARIABLES
    sessions,         \* MCPClientManager._sessions: ordered dict name -> session
    contexts,         \* MCPClientManager._contexts: name -> context (0: no entry)
    locks,            \* MCPClientManager._locks: name -> holder followed by waiters
    connection_tasks, \* MCPClientManager._connection_tasks: ordered dict name -> task
    connect_task,     \* the asyncio tasks that run _connect
    caller,           \* the coroutines that call get_session / call_tool
    closer            \* the coroutine that runs close_all

mcp_vars == <<sessions, contexts, locks, connection_tasks, connect_task, caller,
              closer>>

\* the A2A client manager (A2AClientManager.send_task)
VARIABLES
    response_lines,        \* the lines response.aiter_lines() yields
    line_no,               \* number of lines the read loop has taken
    last_known_task_state, \* local of send_task
    stream_exc,            \* local of send_task
    callback_log,          \* what stream_callback was called with, in order
    send_pc,               \* position of send_task
    send_ret               \* what send_task returned or raised

client_vars == <<response_lines, line_no, last_known_task_state, stream_exc,
                 callback_log, send_pc, send_ret>>

\* the card cache of the A2A client manager (A2AClientManager.discover_agent)
VARIABLES
    remote_agents,  \* A2AClientManager.remote_agents: key -> card, None when absent
    served_card,    \* the card the agent behind a key serves now
    disc,           \* the coroutines that run discover_agent
    disc_again      \* number of discover_agent calls that have returned

disc_vars == <<remote_agents, served_card, disc, disc_again>>

\* callers of the router (A2ATaskRouter)
VARIABLES
    router_calls,   \* number of router calls made so far
    last_call,      \* the latest router call and what it returned
    invoked         \* the handlers that routed sends have called

router_vars == <<router_calls, last_call, invoked>>

\* one agent (APIA_BaseAgent)
VARIABLES
    agent_status,        \* self.status ("unbuilt" before __init__ has run)
    stop_event,          \* self._stop_event.is_set()
    internal_task_queue, \* self.internal_task_queue: work items and sentinels
    run_task,            \* self._run_task: the latest run task (0: None)
    run_tasks,           \* the tasks start() created
    registered,          \* self._registered
    handlers_registered, \* self._handlers_registered
    registry_count,      \* times agent_registry.register(self) took effect
    router_count,        \* times register_handler took effect, per skill
    stopper,             \* the coroutines that run stop()
    start_calls,         \* number of start() calls so far
    stop_calls,          \* number of stop() calls so far
    enqueued,            \* number of items put on the queue so far
    agent_lock,          \* self._lock: its holder followed by its waiters
    producer,            \* the coroutines that run receive_internal_task
    completed_task_count, \* self.completed_task_count
    error_count          \* self.error_count

\* the lock of the agent, its producers and its two counters
agent_work == <<agent_lock, producer, completed_task_count, error_count>>

agent_vars == <<agent_status, stop_event, internal_task_queue, run_task,
                run_tasks, registered, handlers_registered, registry_count,
                router_count, stopper, start_calls, stop_calls, enqueued,
                agent_work>>

\* the task manager
manager_vars == <<tasks, task_locks, lock_count, a2a_dlq, metrics, handlers,
                  default_handler, pc, op, tid, hl, lockref, holds, mread,
                  outcome, ret, sink, nupd, may>>

\* the task manager without the registry of the router
manager_rest == <<tasks, task_locks, lock_count, a2a_dlq, metrics, pc, op, tid,
                  hl, lockref, holds, mread, outcome, ret, sink, nupd, may>>

\* what a step of the task manager does not touch
others == <<mcp_vars, client_vars, disc_vars, router_vars, agent_vars>>
\* what a step of the MCP client manager does not touch
mcp_others == <<manager_vars, client_vars, disc_vars, router_vars, agent_vars>>
\* what a step of send_task does not touch
client_others == <<manager_vars, mcp_vars, disc_vars, router_vars, agent_vars>>
\* what a step of discover_agent does not touch
disc_others == <<manager_vars, mcp_vars, client_vars, router_vars, agent_vars>>
\* what a call of the router does not touch
router_others == <<manager_rest, mcp_vars, client_vars, disc_vars, agent_vars>>
\* what a step of an agent does not touch
agent_others == <<manager_vars, mcp_vars, client_vars, disc_vars, router_vars>>

vars == <<manager_vars, mcp_vars, client_vars, disc_vars, router_vars,
          agent_vars>>

\* ------------------------------------------------------------- data model
NoStatus == [state |-> None, message |-> None]
NoTask == [status |-> NoStatus, history |-> <<>>, artifacts |-> <<>>]

\* A2ATaskState(state=..., message=...)
A2ATaskState(state, message) == [state |-> state, message |-> message]

\* states of a task that the retention sweep and cancel treat as terminal
TerminalStates == {"completed", "failed", "canceled"}
\* states in which an existing task accepts a further message
ReusableStates == {"input-required", "completed", "working", "submitted", "canceled"}

NoOutcome == [kind |-> None, state |-> None, msg |-> None, artifacts |-> <<>>]
\* A2ATaskResult(status, message, artifacts) returned by a handler
A2ATaskResult(state, msg, artifacts) ==
    [kind |-> "returned", state |-> state, msg |-> msg, artifacts |-> artifacts]
Raised == [kind |-> "raised", state |-> None, msg |-> None, artifacts |-> <<>>]

\* what a collaborator handler may return
\* (message: none, a message whose first part is text, or one whose first part
\* is a file)
Outcomes == {A2ATaskResult("completed", None, <<"a1">>),
             A2ATaskResult("completed", "file", <<"a1">>),
             A2ATaskResult("failed", None, <<>>),
             A2ATaskResult("input-required", "text", <<>>),
             Raised}
\* handle_task_send never looks into the message of a result
SendOutcomes == {o \in Outcomes : o.msg # "file"}

NoRet == [kind |-> None, code |-> 0, task |-> NoTask]
RetTask(t) == [kind |-> "task", code |-> 0, task |-> t]
\* A2AError(code=...)
A2AError(code) == [kind |-> "error", code |-> code, task |-> NoTask]

\* A2ATaskStatusUpdateEventResult(status, final)
StatusEvent(state, final) == [type |-> "status", state |-> state, final |-> final]
ErrorEvent(code) == [type |-> "error", state |-> None, final |-> FALSE]

\* put on an asyncio.Queue() without maxsize: never blocks
Put(q, ev) == Append(q, ev)

\* ---------------------------------------------------------------- router
\* the default handler takes precedence
get_handler_default_first(skill_id) ==
    IF default_handler # None THEN default_handler
    ELSE IF skill_id \in DOMAIN handlers THEN handlers[skill_id]
    ELSE None

\* A2ATaskRouter.get_handler: the specific handler, else the default, else none
get_handler(skill_id) ==
    IF /\ skill_id \notin {None, ""}
       /\ skill_id \in DOMAIN handlers
       /\ handlers[skill_id] # None
    THEN handlers[skill_id]
    ELSE IF default_handler # None THEN default_handler
    ELSE None

\* ------------------------------------------------------------ validation
\* message parts a request may carry
PartKinds == {"text", "emptytext", "file_bytes", "file_uri", "file_ftp",
              "file_none", "data", "emptydata"}
\* the text of a text part is not looked at
validate_task_params_any_text(parts) ==
    /\ Len(parts) > 0
    /\ \A i \in 1..Len(parts) :
          /\ parts[i] # "file_none"
          /\ parts[i] # "file_ftp"
          /\ parts[i] # "emptydata"

\* A2ATaskManager._validate_task_params: TRUE when no A2AError(-32602) is raised
validate_task_params(parts) ==
    /\ Len(parts) > 0
    /\ \A i \in 1..Len(parts) :
          /\ parts[i] # "file_none"
          /\ parts[i] # "file_ftp"
          /\ parts[i] # "emptytext"
          /\ parts[i] # "emptydata"

\* the messages requests are sent with
Messages == {<<>>, <<"text">>, <<"emptytext">>, <<"file_none">>, <<"file_uri">>,
             <<"emptydata">>, <<"file_ftp">>, <<"text", "emptytext">>}

\* ------------------------------------------------------------ task store
\* A2ATaskManager._update_task_state: the body of the coroutine
update_task_state(id, status, setStatus, artifacts, replace_artifacts) ==
    IF tasks[id] = NoTask THEN tasks
    ELSE [tasks EXCEPT
            ![id].status = IF setStatus THEN status ELSE @,
            ![id].artifacts = IF replace_artifacts THEN artifacts ELSE @]

\* A call `self._update_task_state(...)` without `await`: the coroutine object
\* is created and dropped, its body never runs, the store stays as it is.
NotAwaited(coroutine_effect) == tasks

\* the entry is logged and not recorded
add_to_dlq_log_only(dlq, id, method, reason) == dlq

\* A2ATaskManager._add_to_dlq (the second definition, which replaces the first)
add_to_dlq(dlq, id, method, reason) == Append(dlq, <<id, method, reason>>)

\* the history is replaced by the new message instead of extended by it
history_append_replacing(h, m) == <<m>>

\* task.history = (task.history or []) + [params.message]
history_append(h, m) == Append(h, m)

\* python: history[-n:]
SliceLast(h, n) ==
    IF n = 0 THEN h
    ELSE IF n >= Len(h) THEN h
    ELSE SubSeq(h, Len(h) - n + 1, Len(h))

\* A2ATaskManager.handle_task_get: the history of the returned copy
GetHistory(h, history_length) ==
    IF history_length >= 0 /\ h # <<>> THEN SliceLast(h, history_length)
    ELSE IF history_length = 0 THEN <<>>
    ELSE h

\* ----------------------------------------------------------------- locks
WaitPCs == {"send_wait1", "send_wait2", "send_wait3", "sub_wait1", "sub_wait2",
            "get_wait", "cancel_wait", "rm_wait"}
\* where a request continues once the lock it waits for is its own
CsOf(w) ==
    CASE w = "send_wait1" -> "send_cs1"
      [] w = "send_wait2" -> "send_cs2"
      [] w = "send_wait3" -> "send_cs3"
      [] w = "sub_wait1" -> "sub_cs1"
      [] w = "sub_wait2" -> "sub_cs2"
      [] w = "get_wait" -> "get_cs"
      [] w = "cancel_wait" -> "cancel_cs"
      [] w = "rm_wait" -> "rm_cs"

\* positions right after a lock was taken: the section starts in the same run
\* of the coroutine, before any other coroutine is scheduled
SectionPCs == {"send_cs1", "send_cs2", "send_cs3", "sub_cs1", "sub_cs2",
               "get_cs", "cancel_cs", "rm_cs"}

\* the event loop can run a step of p: no other coroutine is in mid-run
Scheduled(p) == \A q \in Procs \ {p} : pc[q] \notin SectionPCs

\* asyncio.Lock.locked()
IsLocked(id, g) == \E q \in Procs : tid[q] = id /\ holds[q] = g

\* asyncio.Lock.acquire takes the lock at once only when it is free and nobody
\* waits for it; p itself is leaving its own section in the same step
LockBusy(p, id, g) ==
    \E q \in Procs \ {p} :
        /\ tid[q] = id
        /\ \/ holds[q] = g
           \/ pc[q] \in WaitPCs /\ lockref[q] = g

\* A2ATaskManager._get_task_lock: the lock object of the id, created when absent
get_task_lock(id) ==
    IF task_locks[id] # 0 THEN task_locks[id] ELSE lock_count[id] + 1

\* `async with await self._get_task_lock(id)`: fetch the lock object and enter
\* the section, or wait for it
Acquire(p, id, csPc, waitPc) ==
    LET g == get_task_lock(id) IN
    /\ task_locks' = [task_locks EXCEPT ![id] = g]
    /\ lock_count' = [lock_count EXCEPT ![id] = IF g > @ THEN g ELSE @]
    /\ lockref' = [lockref EXCEPT ![p] = g]
    /\ IF LockBusy(p, id, g)
       THEN /\ holds' = [holds EXCEPT ![p] = 0]
            /\ pc' = [pc EXCEPT ![p] = waitPc]
       ELSE /\ holds' = [holds EXCEPT ![p] = g]
            /\ pc' = [pc EXCEPT ![p] = csPc]

\* `async with task_lock` on a lock object fetched earlier
AcquireRef(p, csPc, waitPc) ==
    /\ UNCHANGED <<task_locks, lock_count, lockref>>
    /\ IF LockBusy(p, tid[p], lockref[p])
       THEN /\ holds' = [holds EXCEPT ![p] = 0]
            /\ pc' = [pc EXCEPT ![p] = waitPc]
       ELSE /\ holds' = [holds EXCEPT ![p] = lockref[p]]
            /\ pc' = [pc EXCEPT ![p] = csPc]

\* a request that finishes without giving its lock back
ReleaseDone_keeps_lock(p) ==
    /\ pc' = [pc EXCEPT ![p] = "done"]
    /\ UNCHANGED <<holds, task_locks, lock_count, lockref>>

\* leaving `async with`: the lock is released and the request has finished
ReleaseDone(p) ==
    /\ holds' = [holds EXCEPT ![p] = 0]
    /\ pc' = [pc EXCEPT ![p] = "done"]
    /\ UNCHANGED <<task_locks, lock_count, lockref>>

\* a request that waited for a lock gets it (asyncio.Lock.acquire returns)
AcquireWaited(p) ==
    /\ pc[p] \in WaitPCs
    /\ Scheduled(p)
    /\ ~IsLocked(tid[p], lockref[p])
    /\ holds' = [holds EXCEPT ![p] = lockref[p]]
    /\ pc' = [pc EXCEPT ![p] = CsOf(pc[p])]
    /\ UNCHANGED <<tasks, task_locks, lock_count, a2a_dlq, metrics, handlers,
                   default_handler, op, tid, hl, lockref, mread, outcome, ret,
                   sink, nupd, may, others>>

\* a request arrives: what it runs and on which id
Begin(p, o, id) ==
    /\ pc[p] = "idle"
    /\ Scheduled(p)
    /\ o \in may[p]
    /\ UNCHANGED <<may, others>>
    /\ op' = [op EXCEPT ![p] = o]
    /\ tid' = [tid EXCEPT ![p] = id]

\* the metric a finished handler is counted under by handle_task_send
SendMetric(o) ==
    IF o.kind = "raised" THEN "failed"
    ELSE IF o.state = "completed" THEN "completed"
    ELSE IF o.state = "failed" THEN "failed"
    ELSE None

\* ------------------------------------------------------------- tasks/send
\* handle_task_send up to the first lock: validation, routing, lock
StartSend(p, id, parts, skill) ==
    /\ Begin(p, "send", id)
    /\ UNCHANGED <<tasks, metrics, handlers, default_handler, hl, mread,
                   outcome, sink, nupd>>
    /\ IF ~validate_task_params(parts)
       THEN /\ ret' = [ret EXCEPT ![p] = A2AError(-32602)]
            /\ pc' = [pc EXCEPT ![p] = "done"]
            /\ UNCHANGED <<a2a_dlq, task_locks, lock_count, lockref, holds>>
       ELSE IF get_handler(skill) = None
       THEN /\ a2a_dlq' = add_to_dlq(a2a_dlq, id, "tasks/send", "no handler")
            /\ ret' = [ret EXCEPT ![p] = A2AError(-32601)]
            /\ pc' = [pc EXCEPT ![p] = "done"]
            /\ UNCHANGED <<task_locks, lock_count, lockref, holds>>
       ELSE /\ Acquire(p, id, "send_cs1", "send_wait1")
            /\ UNCHANGED <<a2a_dlq, ret>>

\* first section of handle_task_send: append to an existing task or create one
SendCS1(p) ==
    LET id == tid[p]  t == tasks[id] IN
    /\ pc[p] = "send_cs1"
    /\ UNCHANGED <<task_locks, lock_count, lockref, a2a_dlq, metrics, handlers,
                   default_handler, op, tid, hl, outcome, sink, nupd, may, others>>
    /\ IF t # NoTask
       THEN IF t.status.state \notin ReusableStates
            THEN /\ ret' = [ret EXCEPT ![p] = A2AError(-32004)]
                 /\ holds' = [holds EXCEPT ![p] = 0]
                 /\ pc' = [pc EXCEPT ![p] = "done"]
                 /\ UNCHANGED <<tasks, mread>>
            ELSE /\ tasks' = [tasks EXCEPT
                               ![id].history = history_append(@, p),
                               ![id].status = A2ATaskState("working", None)]
                 /\ holds' = [holds EXCEPT ![p] = 0]
                 /\ pc' = [pc EXCEPT ![p] = "handler"]
                 /\ UNCHANGED <<ret, mread>>
       ELSE /\ tasks' = [tasks EXCEPT ![id] =
                            [status |-> A2ATaskState("working", None),
                             history |-> <<p>>, artifacts |-> <<>>]]
            /\ mread' = [mread EXCEPT ![p] = metrics["received"]]
            /\ pc' = [pc EXCEPT ![p] = "m1w"]
            /\ UNCHANGED <<ret, holds>>

\* kb.update_metric("received", read + 1), still inside the first section
\* (handle_task_send and handle_task_send_subscribe alike)
ReceivedMetricWrite(p) ==
    /\ pc[p] = "m1w"
    /\ Scheduled(p)
    /\ metrics' = [metrics EXCEPT !["received"] = mread[p] + 1]
    /\ pc' = [pc EXCEPT ![p] = "m1e"]
    /\ mread' = [mread EXCEPT ![p] = 0]
    /\ UNCHANGED <<tasks, task_locks, lock_count, a2a_dlq, handlers,
                   default_handler, op, tid, hl, lockref, holds, outcome,
                   ret, sink, nupd, may, others>>

\* the handler is awaited inside `async with`: the lock stays held
HandlerCall_inside_lock(p) ==
    /\ pc[p] = "m1e"
    /\ Scheduled(p)
    /\ sink' = [sink EXCEPT ![p] = IF op[p] = "sub"
                                   THEN Put(@, StatusEvent("working", FALSE))
                                   ELSE @]
    /\ pc' = [pc EXCEPT ![p] = "handler"]
    /\ UNCHANGED <<tasks, task_locks, lock_count, a2a_dlq, metrics, handlers,
                   default_handler, op, tid, hl, lockref, holds, mread, outcome,
                   ret, nupd, may, others>>

\* end of the first section: the lock is released and the handler is called;
\* handle_task_send_subscribe first puts the "working" event on the sink
HandlerCall(p) ==
    /\ pc[p] = "m1e"
    /\ Scheduled(p)
    /\ holds' = [holds EXCEPT ![p] = 0]
    /\ sink' = [sink EXCEPT ![p] = IF op[p] = "sub"
                                   THEN Put(@, StatusEvent("working", FALSE))
                                   ELSE @]
    /\ pc' = [pc EXCEPT ![p] = "handler"]
    /\ UNCHANGED <<tasks, task_locks, lock_count, a2a_dlq, metrics, handlers,
                   default_handler, op, tid, hl, lockref, mread, outcome, ret,
                   nupd, may, others>>

\* the handler returns a result or raises; handle_task_send goes for the lock
SendHandlerDone(p, o) ==
    /\ pc[p] = "handler"
    /\ Scheduled(p)
    /\ op[p] = "send"
    /\ outcome' = [outcome EXCEPT ![p] = o]
    /\ Acquire(p, tid[p], "send_cs2", "send_wait2")
    /\ UNCHANGED <<tasks, a2a_dlq, metrics, handlers, default_handler, op, tid,
                   hl, mread, ret, sink, nupd, may, others>>

\* section after the handler: the state update and the first metric call
SendCS2(p) ==
    LET id == tid[p]  o == outcome[p] IN
    /\ pc[p] = "send_cs2"
    /\ tasks' = IF o.kind = "raised"
                THEN NotAwaited(update_task_state(id,
                        A2ATaskState("failed", "internal error"), TRUE, <<>>, TRUE))
                ELSE NotAwaited(update_task_state(id,
                        A2ATaskState(o.state, o.msg), TRUE, o.artifacts, TRUE))
    /\ UNCHANGED <<a2a_dlq, metrics, handlers, default_handler, op, tid, hl,
                   outcome, ret, sink, nupd, may, others>>
    /\ IF SendMetric(o) # None
       THEN /\ mread' = [mread EXCEPT ![p] = metrics[SendMetric(o)]]
            /\ pc' = [pc EXCEPT ![p] = "send_m2w"]
            /\ UNCHANGED <<task_locks, lock_count, lockref, holds>>
       ELSE /\ Acquire(p, id, "send_cs3", "send_wait3")
            /\ UNCHANGED mread

\* kb.update_metric(completed | failed, read + 1)
SendM2W(p) ==
    /\ pc[p] = "send_m2w"
    /\ Scheduled(p)
    /\ metrics' = [metrics EXCEPT ![SendMetric(outcome[p])] = mread[p] + 1]
    /\ pc' = [pc EXCEPT ![p] = "send_fin"]
    /\ mread' = [mread EXCEPT ![p] = 0]
    /\ UNCHANGED <<tasks, task_locks, lock_count, a2a_dlq, handlers,
                   default_handler, op, tid, hl, lockref, holds, outcome,
                   ret, sink, nupd, may, others>>

\* dead-letter entry of a failed handler, end of the section, lock for the return
SendFin(p) ==
    LET id == tid[p]  o == outcome[p] IN
    /\ pc[p] = "send_fin"
    /\ Scheduled(p)
    /\ a2a_dlq' = IF o.kind = "raised"
                  THEN add_to_dlq(a2a_dlq, id, "tasks/send", "handler exception")
                  ELSE IF o.state = "failed"
                  THEN add_to_dlq(a2a_dlq, id, "tasks/send", "handler failed")
                  ELSE a2a_dlq
    /\ Acquire(p, id, "send_cs3", "send_wait3")
    /\ UNCHANGED <<tasks, metrics, handlers, default_handler, op, tid, hl,
                   mread, outcome, ret, sink, nupd, may, others>>

\* last section of handle_task_send: return a copy of the stored task
SendCS3(p) ==
    /\ pc[p] = "send_cs3"
    /\ ret' = [ret EXCEPT ![p] = IF tasks[tid[p]] = NoTask
                                 THEN [kind |-> "KeyError", code |-> 0, task |-> NoTask]
                                 ELSE RetTask(tasks[tid[p]])]
    /\ ReleaseDone(p)
    /\ UNCHANGED <<tasks, a2a_dlq, metrics, handlers, default_handler, op, tid,
                   hl, mread, outcome, sink, nupd, may, others>>

\* ---------------------------------------------------- tasks/sendSubscribe
\* the try block of handle_task_send_subscribe raised: the handler did, or the
\* final update_status did on a result message that does not start with text
SubRaised(o) == o.kind = "raised" \/ o.msg = "file"

\* final_status.state of handle_task_send_subscribe
SubFinalState(o) == IF SubRaised(o) THEN "failed" ELSE o.state

\* final_artifacts of handle_task_send_subscribe, as _update_task_state takes them
SubFinalArtifacts(o) == IF o.kind = "returned" THEN o.artifacts ELSE <<>>

\* metric_category of handle_task_send_subscribe
SubMetric(o) == IF SubFinalState(o) = "completed" THEN "completed" ELSE "failed"

\* handle_task_send_subscribe up to the first lock: validation, routing, lock
StartSub(p, id, parts, skill) ==
    /\ Begin(p, "sub", id)
    /\ UNCHANGED <<tasks, metrics, handlers, default_handler, hl, mread,
                   outcome, sink, nupd>>
    /\ IF ~validate_task_params(parts)
       THEN /\ ret' = [ret EXCEPT ![p] = A2AError(-32602)]
            /\ pc' = [pc EXCEPT ![p] = "done"]
            /\ UNCHANGED <<a2a_dlq, task_locks, lock_count, lockref, holds>>
       ELSE IF get_handler(skill) = None
       THEN /\ a2a_dlq' = add_to_dlq(a2a_dlq, id, "tasks/send", "no handler")
            /\ ret' = [ret EXCEPT ![p] = A2AError(-32601)]
            /\ pc' = [pc EXCEPT ![p] = "done"]
            /\ UNCHANGED <<task_locks, lock_count, lockref, holds>>
       ELSE /\ Acquire(p, id, "sub_cs1", "sub_wait1")
            /\ UNCHANGED <<a2a_dlq, ret>>

\* first section of handle_task_send_subscribe
SubCS1(p) ==
    LET id == tid[p]  t == tasks[id] IN
    /\ pc[p] = "sub_cs1"
    /\ UNCHANGED <<task_locks, lock_count, lockref, a2a_dlq, metrics, handlers,
                   default_handler, op, tid, hl, outcome, nupd, may, others>>
    /\ IF t # NoTask
       THEN IF t.status.state \notin ReusableStates
            THEN /\ sink' = [sink EXCEPT ![p] = Put(@, ErrorEvent(-32004))]
                 /\ ret' = [ret EXCEPT ![p] = [kind |-> "returned", code |-> 0,
                                               task |-> NoTask]]
                 /\ holds' = [holds EXCEPT ![p] = 0]
                 /\ pc' = [pc EXCEPT ![p] = "done"]
                 /\ UNCHANGED <<tasks, mread>>
            ELSE /\ tasks' = [tasks EXCEPT
                               ![id].history = history_append(@, p),
                               ![id].status = A2ATaskState("working", None)]
                 /\ holds' = [holds EXCEPT ![p] = 0]
                 /\ sink' = [sink EXCEPT ![p] = Put(@, StatusEvent("working", FALSE))]
                 /\ pc' = [pc EXCEPT ![p] = "handler"]
                 /\ UNCHANGED <<ret, mread>>
       ELSE /\ tasks' = [tasks EXCEPT ![id] =
                            [status |-> A2ATaskState("working", None),
                             history |-> <<p>>, artifacts |-> <<>>]]
            /\ mread' = [mread EXCEPT ![p] = metrics["received"]]
            /\ pc' = [pc EXCEPT ![p] = "m1w"]
            /\ UNCHANGED <<ret, holds, sink>>

\* the handler streams an intermediate update: context.update_status("working")
SubHandlerUpdate(p) ==
    /\ pc[p] = "handler"
    /\ Scheduled(p)
    /\ op[p] = "sub"
    /\ nupd[p] < MaxUpdates
    /\ nupd' = [nupd EXCEPT ![p] = @ + 1]
    /\ sink' = [sink EXCEPT ![p] = Put(@, StatusEvent("working", FALSE))]
    /\ UNCHANGED <<tasks, task_locks, lock_count, a2a_dlq, metrics, handlers,
                   default_handler, pc, op, tid, hl, lockref, holds, mread,
                   outcome, ret, may, others>>

\* no final event when the try block raised
FinalEvents_silent_on_exception(q, o) ==
    IF SubRaised(o) THEN q ELSE Put(q, StatusEvent(SubFinalState(o), TRUE))

\* the events handle_task_send_subscribe puts once the handler has finished
FinalEvents(q, o) == Put(q, StatusEvent(SubFinalState(o), TRUE))

\* the handler returns or raises: final event, dead-letter entry of an
\* exception, then the lock for the final update
SubHandlerDone(p, o) ==
    /\ pc[p] = "handler"
    /\ Scheduled(p)
    /\ op[p] = "sub"
    /\ outcome' = [outcome EXCEPT ![p] = o]
    /\ sink' = [sink EXCEPT ![p] = FinalEvents(@, o)]
    /\ a2a_dlq' = IF SubRaised(o)
                  THEN add_to_dlq(a2a_dlq, tid[p], "tasks/sendSubscribe",
                                  "handler exception")
                  ELSE a2a_dlq
    /\ AcquireRef(p, "sub_cs2", "sub_wait2")
    /\ UNCHANGED <<tasks, metrics, handlers, default_handler, op, tid, hl,
                   mread, ret, nupd, may, others>>

\* finally block of handle_task_send_subscribe: state update, dead-letter entry
\* of a status that is not completed, first metric call
SubCS2(p) ==
    LET id == tid[p]  o == outcome[p] IN
    /\ pc[p] = "sub_cs2"
    /\ tasks' = NotAwaited(update_task_state(id,
                    A2ATaskState(SubFinalState(o), IF SubRaised(o)
                                                   THEN "internal error" ELSE o.msg),
                    TRUE, SubFinalArtifacts(o), TRUE))
    /\ a2a_dlq' = IF SubMetric(o) = "failed"
                  THEN add_to_dlq(a2a_dlq, id, "tasks/sendSubscribe",
                                  "stream handler failed")
                  ELSE a2a_dlq
    /\ mread' = [mread EXCEPT ![p] = metrics[SubMetric(o)]]
    /\ pc' = [pc EXCEPT ![p] = "sub_m2w"]
    /\ UNCHANGED <<task_locks, lock_count, lockref, holds, metrics, handlers,
                   default_handler, op, tid, hl, outcome, ret, sink, nupd, may, others>>

\* kb.update_metric(metric_category, read + 1)
SubM2W(p) ==
    /\ pc[p] = "sub_m2w"
    /\ Scheduled(p)
    /\ metrics' = [metrics EXCEPT ![SubMetric(outcome[p])] = mread[p] + 1]
    /\ pc' = [pc EXCEPT ![p] = "sub_end"]
    /\ mread' = [mread EXCEPT ![p] = 0]
    /\ UNCHANGED <<tasks, task_locks, lock_count, a2a_dlq, handlers,
                   default_handler, op, tid, hl, lockref, holds, outcome,
                   ret, sink, nupd, may, others>>

\* handle_task_send_subscribe leaves the final section and returns
SubEnd(p) ==
    /\ pc[p] = "sub_end"
    /\ Scheduled(p)
    /\ ret' = [ret EXCEPT ![p] = [kind |-> "returned", code |-> 0, task |-> NoTask]]
    /\ ReleaseDone(p)
    /\ UNCHANGED <<tasks, a2a_dlq, metrics, handlers, default_handler, op, tid,
                   hl, mread, outcome, sink, nupd, may, others>>

\* -------------------------------------------------------------- tasks/get
\* handle_task_get up to the lock
StartGet(p, id, n) ==
    /\ Begin(p, "get", id)
    /\ hl' = [hl EXCEPT ![p] = n]
    /\ Acquire(p, id, "get_cs", "get_wait")
    /\ UNCHANGED <<tasks, a2a_dlq, metrics, handlers, default_handler, mread,
                   outcome, ret, sink, nupd>>

\* the history of the stored task itself is cut to the requested length
store_after_get_in_place(id, history_length) ==
    IF tasks[id] = NoTask THEN tasks
    ELSE [tasks EXCEPT ![id].history = GetHistory(@, history_length)]

\* the store after handle_task_get: the history is cut on a deep copy
\* (task.model_copy(deep=True)), the stored task is not touched
store_after_get(id, history_length) == tasks

\* what handle_task_get returns from inside its section
GetReturn(id, history_length) ==
    IF tasks[id] = NoTask THEN A2AError(-32001)
    ELSE RetTask([tasks[id] EXCEPT
                    !.history = GetHistory(@, history_length)])

\* the section of handle_task_get
GetCS(p) ==
    /\ pc[p] = "get_cs"
    /\ ret' = [ret EXCEPT ![p] = GetReturn(tid[p], hl[p])]
    /\ tasks' = store_after_get(tid[p], hl[p])
    /\ ReleaseDone(p)
    /\ UNCHANGED <<a2a_dlq, metrics, handlers, default_handler, op, tid,
                   hl, mread, outcome, sink, nupd, may, others>>

\* ----------------------------------------------------------- tasks/cancel
\* handle_task_cancel up to the lock
StartCancel(p, id) ==
    /\ Begin(p, "cancel", id)
    /\ Acquire(p, id, "cancel_cs", "cancel_wait")
    /\ UNCHANGED <<tasks, a2a_dlq, metrics, handlers, default_handler, hl,
                   mread, outcome, ret, sink, nupd>>

\* the section of handle_task_cancel up to the metric call
CancelCS(p) ==
    LET id == tid[p]  t == tasks[id] IN
    /\ pc[p] = "cancel_cs"
    /\ UNCHANGED <<task_locks, lock_count, lockref, a2a_dlq, metrics, handlers,
                   default_handler, op, tid, hl, outcome, sink, nupd, may, others>>
    /\ IF t = NoTask
       THEN /\ ret' = [ret EXCEPT ![p] = A2AError(-32001)]
            /\ holds' = [holds EXCEPT ![p] = 0]
            /\ pc' = [pc EXCEPT ![p] = "done"]
            /\ UNCHANGED <<tasks, mread>>
       ELSE IF t.status.state \in TerminalStates
       THEN /\ ret' = [ret EXCEPT ![p] = RetTask(t)]
            /\ holds' = [holds EXCEPT ![p] = 0]
            /\ pc' = [pc EXCEPT ![p] = "done"]
            /\ UNCHANGED <<tasks, mread>>
       ELSE /\ tasks' = NotAwaited(update_task_state(id,
                            A2ATaskState("canceled", None), TRUE, <<>>, TRUE))
            /\ mread' = [mread EXCEPT ![p] = metrics["canceled"]]
            /\ pc' = [pc EXCEPT ![p] = "cancel_mw"]
            /\ UNCHANGED <<ret, holds>>

\* kb.update_metric("canceled", read + 1)
CancelMW(p) ==
    /\ pc[p] = "cancel_mw"
    /\ Scheduled(p)
    /\ metrics' = [metrics EXCEPT !["canceled"] = mread[p] + 1]
    /\ pc' = [pc EXCEPT ![p] = "cancel_end"]
    /\ mread' = [mread EXCEPT ![p] = 0]
    /\ UNCHANGED <<tasks, task_locks, lock_count, a2a_dlq, handlers,
                   default_handler, op, tid, hl, lockref, holds, outcome,
                   ret, sink, nupd, may, others>>

\* handle_task_cancel returns a copy of the stored task
CancelEnd(p) ==
    /\ pc[p] = "cancel_end"
    /\ Scheduled(p)
    /\ ret' = [ret EXCEPT ![p] = IF tasks[tid[p]] = NoTask
                                 THEN [kind |-> "KeyError", code |-> 0, task |-> NoTask]
                                 ELSE RetTask(tasks[tid[p]])]
    /\ ReleaseDone(p)
    /\ UNCHANGED <<tasks, a2a_dlq, metrics, handlers, default_handler, op, tid,
                   hl, mread, outcome, sink, nupd, may, others>>

\* -------------------------------------------------------- retention sweep
\* first pass of _cleanup_old_tasks: the ids of the terminal tasks among those
\* whose status is older than the threshold
tasks_to_remove(old) ==
    {id \in old : tasks[id] # NoTask /\ tasks[id].status.state \in TerminalStates}

\* _cleanup_old_tasks at a moment when the statuses of `old` are past the
\* threshold; with nothing selected the second pass has nothing to do
CleanupOldTasks(p, old) ==
    /\ Begin(p, "sweep", None)
    /\ tasks_to_remove(old) = {}
    /\ pc' = [pc EXCEPT ![p] = "done"]
    /\ UNCHANGED <<tasks, task_locks, lock_count, a2a_dlq, metrics, handlers,
                   default_handler, hl, lockref, holds, mread, outcome, ret,
                   sink, nupd>>

\* _remove_task(id) up to the lock
StartRemove(p, id) ==
    /\ Begin(p, "remove", id)
    /\ Acquire(p, id, "rm_cs", "rm_wait")
    /\ UNCHANGED <<tasks, a2a_dlq, metrics, handlers, default_handler, hl,
                   mread, outcome, ret, sink, nupd>>

\* _remove_task(id) with the lock: the record is deleted, the lock is released,
\* then the entry of the lock is deleted from the lock table
RemoveCS(p) ==
    /\ pc[p] = "rm_cs"
    /\ tasks' = [tasks EXCEPT ![tid[p]] = NoTask]
    /\ holds' = [holds EXCEPT ![p] = 0]
    /\ task_locks' = [task_locks EXCEPT ![tid[p]] = 0]
    /\ pc' = [pc EXCEPT ![p] = "done"]
    /\ UNCHANGED <<lock_count, a2a_dlq, metrics, handlers, default_handler, op,
                   tid, hl, lockref, mread, outcome, ret, sink, nupd, may, others>>

\* ------------------------------------------------------- MCP client manager
\* largest number of connection tasks get_session creates in one run
MaxTasks == 3
\* largest number of calls the callers make in one run
MaxCalls == 3

\* server names callers ask for; the last one is in no MCPServerConfig
ServerNames == {"s1", "s2", "nocfg"}
\* MCPClientManager.config: the names of the configured servers
config == {"s1", "s2"}
Callers == {"c1", "c2"}
TaskNos == 1..MaxTasks

\* python dict, in insertion order, as a sequence of <<key, value>>
Has(d, k) == \E i \in 1..Len(d) : d[i][1] = k
Get(d, k) == d[CHOOSE i \in 1..Len(d) : d[i][1] = k][2]
Set(d, k, v) ==
    IF Has(d, k) THEN [i \in 1..Len(d) |-> IF d[i][1] = k THEN <<k, v>> ELSE d[i]]
    ELSE Append(d, <<k, v>>)
Del(d, k) == SelectSeq(d, LAMBDA e : e[1] # k)
Keys(d) == [i \in 1..Len(d) |-> d[i][1]]

NoConnectTask == [name |-> None, pc |-> "none", res |-> None, sess |-> 0,
                  cancel |-> FALSE]
NoCaller == [pc |-> "idle", op |-> None, name |-> None, awaits |-> 0,
             res |-> None, sess |-> 0, n |-> 0]
NoCloser == [pc |-> "idle", snap |-> <<>>, i |-> 1, names |-> <<>>, j |-> 1,
             res |-> None]

\* asyncio.Task.done()
TaskDone(t) == connect_task[t].pc = "done"

\* number of connection tasks created so far
NTasks == Cardinality({t \in TaskNos : connect_task[t].pc # "none"})

\* number of calls made so far
NCalls == caller["c1"].n + caller["c2"].n

\* the lock of a server once t has left `async with self._locks[server_name]`
Released(n, t) == [locks EXCEPT ![n] = SelectSeq(@, LAMBDA x : x # t)]
\* the lock of a server with t inside `async with self._locks[server_name]`
Held(n, t) ==
    IF \E i \in 1..Len(locks[n]) : locks[n][i] = t THEN locks
    ELSE [locks EXCEPT ![n] = Append(@, t)]

\* the task ends: its result or exception is set and its lock is released
EndTask(t, res, sess) ==
    /\ connect_task' = [connect_task EXCEPT ![t].pc = "done", ![t].res = res,
                                            ![t].sess = sess]
    /\ locks' = Released(connect_task[t].name, t)

\* _connect from the moment it has the lock up to its first await or its end
ConnectEnter(t) ==
    LET n == connect_task[t].name IN
    /\ UNCHANGED <<sessions, contexts, connection_tasks>>
    /\ IF Has(sessions, n)
       THEN EndTask(t, "session", Get(sessions, n))
       ELSE IF n \notin config
       THEN EndTask(t, "ConfigurationError", 0)
       ELSE /\ connect_task' = [connect_task EXCEPT ![t].pc = "connecting"]
            /\ locks' = Held(n, t)

\* the first run of a connection task: _connect up to the lock
ConnectStart(t) ==
    LET n == connect_task[t].name IN
    /\ connect_task[t].pc = "new"
    /\ ~connect_task[t].cancel
    /\ UNCHANGED <<caller, closer, mcp_others>>
    /\ IF locks[n] = <<>>
       THEN ConnectEnter(t)
       ELSE /\ connect_task' = [connect_task EXCEPT ![t].pc = "lockwait"]
            /\ locks' = [locks EXCEPT ![n] = Append(@, t)]
            /\ UNCHANGED <<sessions, contexts, connection_tasks>>

\* a connection task that waited for the lock of its server gets it
ConnectLockGranted(t) ==
    LET n == connect_task[t].name IN
    /\ connect_task[t].pc = "lockwait"
    /\ ~connect_task[t].cancel
    /\ Head(locks[n]) = t
    /\ UNCHANGED <<caller, closer, mcp_others>>
    /\ ConnectEnter(t)

\* the transport and session.initialize() come back: the session is registered,
\* or the except branch cleans up and raises ConnectionError
ConnectFinish(t, ok) ==
    LET n == connect_task[t].name IN
    /\ connect_task[t].pc = "connecting"
    /\ ~connect_task[t].cancel
    /\ UNCHANGED <<caller, closer, mcp_others>>
    /\ connection_tasks' = Del(connection_tasks, n)
    /\ IF ok
       THEN /\ sessions' = Set(sessions, n, t)
            /\ contexts' = [contexts EXCEPT ![n] = t]
            /\ EndTask(t, "session", t)
       ELSE /\ sessions' = Del(sessions, n)
            /\ contexts' = [contexts EXCEPT ![n] = 0]
            /\ EndTask(t, "ConnectionError", 0)

\* a cancelled connection task runs again: CancelledError is raised at its
\* await (or before its first line); `except Exception` does not catch it
ConnectCancelled(t) ==
    /\ connect_task[t].pc \in {"new", "lockwait", "connecting"}
    /\ connect_task[t].cancel
    /\ EndTask(t, "CancelledError", 0)
    /\ UNCHANGED <<sessions, contexts, connection_tasks, caller, closer,
                   mcp_others>>

\* what the caller gets once get_session has returned or raised: call_tool
\* goes on to session.call_tool or wraps an Exception into ActionFailedError,
\* get_session wraps an Exception into ConnectionError
AfterGetSession(me, res, sess) ==
    IF res = "session"
    THEN IF me.op = "call_tool"
         THEN [me EXCEPT !.pc = "tool", !.sess = sess, !.res = None]
         ELSE [me EXCEPT !.pc = "ret", !.sess = sess, !.res = "session"]
    ELSE IF res = "CancelledError"
    THEN [me EXCEPT !.pc = "ret", !.sess = 0, !.res = "CancelledError"]
    ELSE [me EXCEPT !.pc = "ret", !.sess = 0,
                    !.res = IF me.op = "call_tool" THEN "ActionFailedError"
                            ELSE "ConnectionError"]

\* get_session (alone or inside call_tool) up to its await
CallStart(c, o, n) ==
    LET me == [caller[c] EXCEPT !.op = o, !.name = n, !.n = @ + 1, !.awaits = 0,
                                !.res = None, !.sess = 0]
        t == NTasks + 1
    IN
    /\ caller[c].pc \in {"idle", "ret"}
    /\ NCalls < MaxCalls
    /\ UNCHANGED <<sessions, contexts, locks, closer, mcp_others>>
    /\ IF Has(sessions, n)
       THEN /\ caller' = [caller EXCEPT ![c] =
                             AfterGetSession(me, "session", Get(sessions, n))]
            /\ UNCHANGED <<connection_tasks, connect_task>>
       ELSE IF ~Has(connection_tasks, n) \/ TaskDone(Get(connection_tasks, n))
       THEN /\ t \in TaskNos
            /\ connect_task' = [connect_task EXCEPT ![t] =
                                   [NoConnectTask EXCEPT !.name = n, !.pc = "new"]]
            /\ connection_tasks' = Set(connection_tasks, n, t)
            /\ caller' = [caller EXCEPT ![c] =
                             [me EXCEPT !.pc = "await", !.awaits = t]]
       ELSE /\ caller' = [caller EXCEPT ![c] =
                             [me EXCEPT !.pc = "await",
                                        !.awaits = Get(connection_tasks, n)]]
            /\ UNCHANGED <<connection_tasks, connect_task>>

\* the awaited connection task is done: get_session returns or raises
CallTaskDone(c) ==
    LET t == caller[c].awaits IN
    /\ caller[c].pc = "await"
    /\ TaskDone(t)
    /\ caller' = [caller EXCEPT ![c] =
                     AfterGetSession(caller[c], connect_task[t].res,
                                     connect_task[t].sess)]
    /\ UNCHANGED <<sessions, contexts, locks, connection_tasks, connect_task,
                   closer, mcp_others>>

\* session.call_tool comes back with a result or raises
CallToolDone(c, ok) ==
    /\ caller[c].pc = "tool"
    /\ caller' = [caller EXCEPT ![c].pc = "ret",
                                ![c].res = IF ok THEN "result"
                                           ELSE "ActionFailedError"]
    /\ UNCHANGED <<sessions, contexts, locks, connection_tasks, connect_task,
                   closer, mcp_others>>

\* ------------------------------------------------------------- close_all
RECURSIVE FirstLoop(_, _, _)
\* the first loop of close_all from entry i of its snapshot on, up to its next
\* await: entries of finished tasks are deleted, a task that is not done is
\* cancelled and awaited, `del` of an absent key raises KeyError
FirstLoop(snap, i, d) ==
    IF i > Len(snap) THEN [i |-> i, d |-> d, out |-> "end"]
    ELSE IF ~TaskDone(snap[i][2]) THEN [i |-> i, d |-> d, out |-> "wait"]
    ELSE IF ~Has(d, snap[i][1]) THEN [i |-> i, d |-> d, out |-> "KeyError"]
    ELSE FirstLoop(snap, i + 1, Del(d, snap[i][1]))

RECURSIVE SecondLoop(_, _)
\* the second loop of close_all from entry j on, up to its next await
SecondLoop(names, j) ==
    IF j > Len(names) THEN [j |-> j, pc |-> "done"]
    ELSE IF Has(sessions, names[j]) THEN [j |-> j, pc |-> "close"]
    ELSE IF contexts[names[j]] # 0 THEN [j |-> j, pc |-> "exit"]
    ELSE SecondLoop(names, j + 1)

\* close_all runs from entry i of the first loop to its next await
RunClose(snap, i) ==
    LET f == FirstLoop(snap, i, connection_tasks)
        names == Keys(sessions)
        g == SecondLoop(names, 1)
    IN
    /\ connection_tasks' = f.d
    /\ UNCHANGED <<sessions, contexts, locks, caller, mcp_others>>
    /\ IF f.out = "wait"
       THEN /\ connect_task' = [connect_task EXCEPT ![snap[f.i][2]].cancel = TRUE]
            /\ closer' = [closer EXCEPT !.pc = "wait", !.snap = snap, !.i = f.i]
       ELSE IF f.out = "KeyError"
       THEN /\ closer' = [closer EXCEPT !.pc = "done", !.snap = snap, !.i = f.i,
                                        !.res = "KeyError"]
            /\ UNCHANGED connect_task
       ELSE /\ closer' = [closer EXCEPT !.pc = g.pc, !.snap = snap, !.i = f.i,
                                        !.names = names, !.j = g.j,
                                        !.res = IF g.pc = "done" THEN "closed"
                                                ELSE None]
            /\ UNCHANGED connect_task

\* close_all is called
CloseStart ==
    /\ closer.pc = "idle"
    /\ RunClose(connection_tasks, 1)

\* the cancelled task that close_all awaits is done
CloseTaskDone ==
    /\ closer.pc = "wait"
    /\ TaskDone(closer.snap[closer.i][2])
    /\ RunClose(closer.snap, closer.i)

\* close_all goes on in its second loop after entry j
CloseNext(j) ==
    LET g == SecondLoop(closer.names, j) IN
    closer' = [closer EXCEPT !.pc = g.pc, !.j = g.j,
                             !.res = IF g.pc = "done" THEN "closed" ELSE None]

\* session.close() comes back or raises
CloseSessionDone(ok) ==
    LET n == closer.names[closer.j] IN
    /\ closer.pc = "close"
    /\ UNCHANGED <<locks, connection_tasks, connect_task, caller, contexts,
                   mcp_others>>
    /\ IF ok /\ Has(sessions, n)
       THEN /\ sessions' = Del(sessions, n)
            /\ IF contexts[n] # 0
               THEN closer' = [closer EXCEPT !.pc = "exit"]
               ELSE CloseNext(closer.j + 1)
       ELSE /\ UNCHANGED sessions
            /\ CloseNext(closer.j + 1)

\* context.__aexit__ comes back or raises
CloseContextDone(ok) ==
    LET n == closer.names[closer.j] IN
    /\ closer.pc = "exit"
    /\ UNCHANGED <<locks, connection_tasks, connect_task, caller, sessions,
                   mcp_others>>
    /\ contexts' = IF ok THEN [contexts EXCEPT ![n] = 0] ELSE contexts
    /\ CloseNext(closer.j + 1)

MCPInit ==
    /\ sessions = <<>>
    /\ contexts = [n \in ServerNames |-> 0]
    /\ locks = [n \in ServerNames |-> <<>>]
    /\ connection_tasks = <<>>
    /\ connect_task = [t \in TaskNos |-> NoConnectTask]
    /\ caller = [c \in Callers |-> NoCaller]
    /\ closer = NoCloser

\* the steps of the MCP client manager and of its callers
MCPNext ==
    \/ \E t \in TaskNos :
          \/ ConnectStart(t)
          \/ ConnectLockGranted(t)
          \/ \E ok \in BOOLEAN : ConnectFinish(t, ok)
          \/ ConnectCancelled(t)
    \/ \E c \in Callers :
          \/ \E o \in {"call_tool", "get_session"}, n \in ServerNames :
                CallStart(c, o, n)
          \/ CallTaskDone(c)
          \/ \E ok \in BOOLEAN : CallToolDone(c, ok)
    \/ CloseStart
    \/ CloseTaskDone
    \/ \E ok \in BOOLEAN : CloseSessionDone(ok)
    \/ \E ok \in BOOLEAN : CloseContextDone(ok)

\* ------------------------------------------- A2A client manager: send_task
\* largest number of lines of one event stream
MaxLines == 3

\* the lines a remote agent may put on the event stream:
\*   comment         a line that does not start with "data:"
\*   data_blank      "data:" followed by nothing
\*   bad_json        "data:" followed by text json.loads cannot decode
\*   json_scalar     "data:" followed by a JSON number, true, false or null
\*   json_list       "data:" followed by a JSON list or string without the keys
\*   object_other    a JSON object with neither "error" nor "result"
\*   error           a JSON object with "error"
\*   status_working  a result with "status" (working) and "final": false
\*   status_final    a result with "status" (completed) and "final": true
\*   status_bad      a result with "status" and "final" that the model rejects
\*   artifact        a result with "artifact"
\*   artifact_bad    a result with "artifact" that the model rejects
\*   result_other    a result with neither "status" and "final" nor "artifact"
\*   network_error   the transport fails while the next line is read
LineKinds == {"comment", "data_blank", "bad_json", "json_scalar", "json_list",
              "object_other", "error", "status_working", "status_final",
              "status_bad", "artifact", "artifact_bad", "result_other",
              "network_error"}

\* the sequences over S of length at most n
SeqsUpTo(S, n) == UNION {[1..k -> S] : k \in 0..n}

ArtifactEvent == [type |-> "artifact", state |-> None, final |-> FALSE]
\* the exception object handed to stream_callback
ExceptionEvent(name) == [type |-> name, state |-> None, final |-> FALSE]

NoSendRet == [kind |-> None, via |-> None, state |-> None]
\* A2ATask(...) returned by send_task, built from the stream or fetched
SentTask(via, state) == [kind |-> "task", via |-> via, state |-> state]
SendRaises(exc) == [kind |-> exc, via |-> None, state |-> None]

\* what the body of the read loop does with one line:
\*   "skip"     nothing, the loop goes on
\*   "deliver"  an event is parsed and handed to stream_callback
\*   "error"    an error event: stream_exc is set, the sink gets it, break
\*   "crash"    processing raised: stream_exc is set, the sink gets it, break
LineEffect(line) ==
    CASE line \in {"comment", "data_blank", "bad_json"} -> "skip"
      [] line = "json_scalar" -> "crash"
      [] line \in {"json_list", "object_other", "result_other"} -> "skip"
      [] line = "error" -> "error"
      [] line \in {"status_bad", "artifact_bad"} -> "skip"
      [] line \in {"status_working", "status_final", "artifact"} -> "deliver"

\* the event_obj parsed from a line whose effect is "deliver"
EventOf(line) ==
    CASE line = "status_working" -> StatusEvent("working", FALSE)
      [] line = "status_final" -> StatusEvent("completed", TRUE)
      [] line = "artifact" -> ArtifactEvent

\* the read loop goes on after a final status event
EndsLoop_never_on_status(line) == LineEffect(line) \in {"error", "crash"}

\* the `break` statements of the read loop
EndsLoop(line) ==
    \/ LineEffect(line) \in {"error", "crash"}
    \/ LineEffect(line) = "deliver" /\ EventOf(line).type = "status"
                                    /\ EventOf(line).final

\* "After streaming, construct or fetch final Task object"
AfterStream(exc, last) ==
    /\ IF exc # None
       THEN /\ send_pc' = "done"
            /\ send_ret' = SendRaises("APIAException")
       ELSE IF last # None
       THEN /\ send_pc' = "done"
            /\ send_ret' = SentTask("stream", last)
       ELSE /\ send_pc' = "fetch"
            /\ send_ret' = send_ret

\* send_task is called with a stream_callback for an agent whose card says
\* streaming: the request is sent and the response starts
SendTaskStream ==
    /\ send_pc = "idle"
    /\ \E ls \in SeqsUpTo(LineKinds, MaxLines) : response_lines' = ls
    /\ send_pc' = "reading"
    /\ UNCHANGED <<line_no, last_known_task_state, stream_exc, callback_log,
                   send_ret, client_others>>

\* the request fails before a line is read: a transport error, or
\* response.raise_for_status() raises
SendTaskStreamFails(exc) ==
    /\ send_pc = "idle"
    /\ send_pc' = "done"
    /\ send_ret' = SendRaises(exc)
    /\ UNCHANGED <<response_lines, line_no, last_known_task_state, stream_exc,
                   callback_log, client_others>>

\* send_task without streaming: one JSON-RPC call
SendTaskPlain(r) ==
    /\ send_pc = "idle"
    /\ send_pc' = "done"
    /\ send_ret' = r
    /\ UNCHANGED <<response_lines, line_no, last_known_task_state, stream_exc,
                   callback_log, client_others>>

\* one iteration of `async for line in response.aiter_lines()`
ReadLine ==
    LET line == response_lines[line_no + 1]
        eff == LineEffect(line)
        exc == IF eff = "error" THEN "A2AError"
               ELSE IF eff = "crash" THEN "TypeError" ELSE stream_exc
        last == IF eff = "deliver" /\ EventOf(line).type = "status"
                THEN EventOf(line).state ELSE last_known_task_state
    IN
    /\ send_pc = "reading"
    /\ line_no < Len(response_lines)
    /\ line_no' = line_no + 1
    /\ UNCHANGED <<response_lines, client_others>>
    /\ IF line = "network_error"
       THEN /\ send_pc' = "done"
            /\ send_ret' = SendRaises("ConnectionError")
            /\ UNCHANGED <<last_known_task_state, stream_exc, callback_log>>
       ELSE /\ stream_exc' = exc
            /\ last_known_task_state' = last
            /\ callback_log' =
                  IF eff = "deliver" THEN Append(callback_log, EventOf(line))
                  ELSE IF eff \in {"error", "crash"}
                  THEN Append(callback_log, ExceptionEvent(exc))
                  ELSE callback_log
            /\ IF EndsLoop(line)
               THEN AfterStream(exc, last)
               ELSE UNCHANGED <<send_pc, send_ret>>

\* the stream has no more lines
StreamEnds ==
    /\ send_pc = "reading"
    /\ line_no = Len(response_lines)
    /\ AfterStream(stream_exc, last_known_task_state)
    /\ UNCHANGED <<response_lines, line_no, last_known_task_state, stream_exc,
                   callback_log, client_others>>

\* get_task after an incomplete stream returns the task or raises
FetchDone(r) ==
    /\ send_pc = "fetch"
    /\ send_pc' = "done"
    /\ send_ret' = IF r.kind = "task" THEN r ELSE SendRaises("APIAException")
    /\ UNCHANGED <<response_lines, line_no, last_known_task_state, stream_exc,
                   callback_log, client_others>>

ClientInit ==
    /\ response_lines = <<>>
    /\ line_no = 0
    /\ last_known_task_state = None
    /\ stream_exc = None
    /\ callback_log = <<>>
    /\ send_pc = "idle"
    /\ send_ret = NoSendRet

\* what tasks/get or tasks/send of the remote agent may answer
RpcAnswers == {SentTask("rpc", "completed"), SentTask("rpc", "working"),
               SendRaises("A2AError"), SendRaises("ConnectionError")}

ClientNext ==
    \/ SendTaskStream
    \/ \E exc \in {"ConnectionError", "APIAException"} : SendTaskStreamFails(exc)
    \/ \E r \in RpcAnswers : SendTaskPlain(r)
    \/ ReadLine
    \/ StreamEnds
    \/ \E r \in RpcAnswers : FetchDone(r)

\* ------------------------------------- A2A client manager: discover_agent
\* largest number of discover_agent calls in one run
MaxDiscovers == 3
\* number of different cards the remote agent serves over time
MaxCardVersions == 2

\* concurrent callers of discover_agent
Discoverers == {"d1", "d2"}
\* an agent_url: scheme prefix as written, host, number of trailing slashes
Schemes == {"", "http://", "https://"}
Urls == [scheme : Schemes, host : {"a"}, slashes : 0..1]

\* lines 351-355: "http://" is put in front of a url without scheme, then
\* rstrip('/') takes every trailing slash away
normalized_url(u) ==
    [scheme |-> IF u.scheme \in {"http://", "https://"} THEN u.scheme ELSE "http://",
     host |-> u.host,
     slashes |-> 0]

CacheKeys == {normalized_url(u) : u \in Urls}

\* no entry in remote_agents
NoCard == 0
\* what discover_agent returns or raises
NoDiscoverRet == [kind |-> None, card |-> NoCard]
ReturnsCard(card) == [kind |-> "card", card |-> card]
DiscoverRaises(exc) == [kind |-> exc, card |-> NoCard]

NoDiscover == [pc |-> "idle", key |-> None, ret |-> NoDiscoverRet,
               fetched |-> FALSE]

\* number of discover_agent calls made so far
NDiscovers == Cardinality({d \in Discoverers : disc[d].pc # "idle"}) + disc_again

\* discover_agent up to the cache lookup: a hit returns, a miss sends the GET
DiscoverStart(d, u) ==
    LET key == normalized_url(u) IN
    /\ disc[d].pc = "idle"
    /\ NDiscovers < MaxDiscovers
    /\ IF remote_agents[key] # NoCard
       THEN disc' = [disc EXCEPT ![d] = [pc |-> "done", key |-> key,
                                         ret |-> ReturnsCard(remote_agents[key]),
                                         fetched |-> FALSE]]
       ELSE disc' = [disc EXCEPT ![d] = [pc |-> "fetch", key |-> key,
                                         ret |-> NoDiscoverRet,
                                         fetched |-> TRUE]]
    /\ UNCHANGED <<remote_agents, served_card, disc_again, disc_others>>

\* the GET of the card returns a valid card: it is stored and returned
DiscoverFetched(d) ==
    LET key == disc[d].key  card == served_card[key] IN
    /\ disc[d].pc = "fetch"
    /\ remote_agents' = [remote_agents EXCEPT ![key] = card]
    /\ disc' = [disc EXCEPT ![d].pc = "done", ![d].ret = ReturnsCard(card)]
    /\ UNCHANGED <<served_card, disc_again, disc_others>>

\* the GET fails (ConnectionError) or the reply is no valid card (APIAException)
DiscoverFails(d, exc) ==
    /\ disc[d].pc = "fetch"
    /\ disc' = [disc EXCEPT ![d].pc = "done", ![d].ret = DiscoverRaises(exc)]
    /\ UNCHANGED <<remote_agents, served_card, disc_again, disc_others>>

\* the caller of a finished discover_agent is ready for its next call
DiscoverReturns(d) ==
    /\ disc[d].pc = "done"
    /\ disc' = [disc EXCEPT ![d] = NoDiscover]
    /\ disc_again' = disc_again + 1
    /\ UNCHANGED <<remote_agents, served_card, disc_others>>

\* the remote agent starts to serve another card
RemoteCardChanges(k) ==
    /\ served_card[k] < MaxCardVersions
    /\ served_card' = [served_card EXCEPT ![k] = @ + 1]
    /\ UNCHANGED <<remote_agents, disc, disc_again, disc_others>>

DiscoverInit ==
    /\ remote_agents = [k \in CacheKeys |-> NoCard]
    /\ served_card = [k \in CacheKeys |-> 1]
    /\ disc = [d \in Discoverers |-> NoDiscover]
    /\ disc_again = 0

DiscoverNext ==
    \/ \E d \in Discoverers, u \in Urls : DiscoverStart(d, u)
    \/ \E d \in Discoverers : DiscoverFetched(d)
    \/ \E d \in Discoverers, exc \in {"ConnectionError", "APIAException"} :
          DiscoverFails(d, exc)
    \/ \E d \in Discoverers : DiscoverReturns(d)
    \/ \E k \in CacheKeys : RemoteCardChanges(k)

\* ------------------------------------------------------ A2ATaskRouter
\* largest number of router calls in one run
MaxRouterCalls == 4

\* handlers a collaborator may hand to the router: coroutine functions and a
\* plain function
AsyncHandlers == {"echo_handler", "h1", "h2"}
SyncHandlers == {"sync_fn"}
Handlers == AsyncHandlers \cup SyncHandlers
\* skill ids a request may name: a registered or unregistered id, the empty
\* string, or none at all
ResolveIds == Skills \cup {"", None}

\* every callable passes
iscoroutinefunction_any_callable(h) == h \in Handlers

\* asyncio.iscoroutinefunction(handler)
iscoroutinefunction(h) == h \in AsyncHandlers

\* the first registration of a skill wins
set_handler_keep_first(hs, skill_id, h) ==
    IF hs[skill_id] # None THEN hs ELSE [hs EXCEPT ![skill_id] = h]

\* self._handlers[skill_id] = handler
set_handler(hs, skill_id, h) == [hs EXCEPT ![skill_id] = h]

NoRouterCall == [op |-> None, skill |-> None, handler |-> None, old |-> None,
                 ret |-> None]

\* A2ATaskRouter.register_handler; the body holds the router lock and has no
\* suspension point, so it runs in one step
register_handler(skill_id, h) ==
    /\ router_calls < MaxRouterCalls
    /\ router_calls' = router_calls + 1
    /\ last_call' = [op |-> "register_handler", skill |-> skill_id,
                     handler |-> h, old |-> handlers[skill_id], ret |-> None]
    /\ handlers' = IF iscoroutinefunction(h)
                   THEN set_handler(handlers, skill_id, h)
                   ELSE handlers
    /\ UNCHANGED <<default_handler, invoked, router_others>>

\* A2ATaskRouter.register_default_handler
register_default_handler(h) ==
    /\ router_calls < MaxRouterCalls
    /\ router_calls' = router_calls + 1
    /\ last_call' = [op |-> "register_default_handler", skill |-> None,
                     handler |-> h, old |-> default_handler, ret |-> None]
    /\ default_handler' = IF iscoroutinefunction(h) THEN h ELSE default_handler
    /\ UNCHANGED <<handlers, invoked, router_others>>

\* a call of A2ATaskRouter.get_handler
Resolve(skill_id) ==
    /\ router_calls < MaxRouterCalls
    /\ router_calls' = router_calls + 1
    /\ last_call' = [op |-> "get_handler", skill |-> skill_id, handler |-> None,
                     old |-> None, ret |-> get_handler(skill_id)]
    /\ UNCHANGED <<handlers, default_handler, invoked, router_others>>

\* a send routed for a skill: _get_handler_for_task asks the router, and
\* handle_task_send calls the handler it got
RouteSend(skill_id) ==
    LET handler == get_handler(skill_id) IN
    /\ router_calls < MaxRouterCalls
    /\ router_calls' = router_calls + 1
    /\ last_call' = [op |-> "send", skill |-> skill_id, handler |-> None,
                     old |-> None, ret |-> handler]
    /\ invoked' = IF handler # None THEN invoked \cup {handler} ELSE invoked
    /\ UNCHANGED <<handlers, default_handler, router_others>>

RouterInit ==
    /\ router_calls = 0
    /\ last_call = NoRouterCall
    /\ invoked = {}

RouterNext ==
    \/ \E s \in Skills, h \in Handlers : register_handler(s, h)
    \/ \E h \in Handlers : register_default_handler(h)
    \/ \E s \in ResolveIds : Resolve(s)
    \/ \E s \in ResolveIds : RouteSend(s)

\* ------------------------------------------------- APIA_BaseAgent lifecycle
\* config["max_internal_queue_size"] of the agent
MaxQueueSize == 1
\* largest number of start() calls and of receive_internal_task calls in a run
MaxStartCalls == 2
MaxItems == 2
\* largest number of receive_internal_task calls in a run with one stop()
MaxWorkItems == 3

\* the skills of the agent that have a coroutine function as handler
AgentSkills == {"k1"}
\* the coroutines that call stop(), once each, "s1" before "s2"
Stoppers == {"s1", "s2"}
\* the only one of them in the runs with one stop()
WorkStoppers == {"s1"}
\* the coroutines that call receive_internal_task (with priorities that
\* differ from one pending item to the next); "q2" calls while "q1" is inside
Producers == {"q1", "q2"}
\* the run tasks start() may create over time
RunTaskNos == 1..MaxStartCalls
\* the run task as holder or waiter of self._lock
Run == "run"

\* waits of the run task for self._lock: before marking busy, in `finally`,
\* in the handler of Exception
LockWaits == {"busy_lockwait", "idle_lockwait", "error_lockwait"}
\* suspension points of the run task: waiting in queue.get, in
\* execute_internal_task, in run_periodic, in the sleep after an error, and
\* for the lock
RunWaits == {"get_wait", "exec", "periodic", "error_sleep"} \cup LockWaits

NoRunTask == [pc |-> "none", cancel |-> FALSE, dequeued |-> 0,
              item |-> "none", exc |-> FALSE]
NoStopper == [pc |-> "idle", early |-> FALSE, target |-> 0]
NoProducer == [pc |-> "idle"]

\* internal_task_queue.qsize() and full()
qsize == internal_task_queue.items + internal_task_queue.sentinels
full == qsize >= MaxQueueSize

\* self._run_task is set and not done()
RunTaskActive == run_task # 0 /\ run_tasks[run_task].pc # "done"

\* asyncio.Lock: locked() or with waiters, where acquire() has to wait
LockFree(lock) == lock = <<>>
\* release() by the holder: the first waiter becomes the holder
ReleaseLock(lock) == Tail(lock)
\* a waiter leaves (its acquire() was cancelled)
LeaveLock(lock, x) == SelectSeq(lock, LAMBDA y : y # x)

\* receive_internal_task calls made so far
ReceiveCalls == enqueued + Cardinality({q \in Producers : producer[q].pc # "idle"})

\* the legacy constructor: registration is done while the agent is built
Construct_registering ==
    /\ agent_status = "unbuilt"
    /\ agent_status' = "idle"
    /\ registry_count' = registry_count + 1
    /\ router_count' = [s \in AgentSkills |-> router_count[s] + 1]
    /\ UNCHANGED <<stop_event, internal_task_queue, run_task, run_tasks,
                   registered, handlers_registered, stopper, start_calls,
                   stop_calls, enqueued, agent_work, agent_others>>

\* APIA_BaseAgent.__init__
Construct ==
    /\ agent_status = "unbuilt"
    /\ agent_status' = "idle"
    /\ UNCHANGED <<stop_event, internal_task_queue, run_task, run_tasks,
                   registered, handlers_registered, registry_count,
                   router_count, stopper, start_calls, stop_calls, enqueued,
                   agent_work, agent_others>>

\* start() creates a run task whatever the state of the last one
StartCall_unguarded ==
    /\ agent_status # "unbuilt"
    /\ start_calls < MaxStartCalls
    /\ start_calls' = start_calls + 1
    /\ stop_event' = FALSE
    /\ run_task' = run_task + 1
    /\ run_tasks' = [run_tasks EXCEPT ![run_task + 1].pc = "created"]
    /\ UNCHANGED <<agent_status, internal_task_queue, registered,
                   handlers_registered, registry_count, router_count, stopper,
                   stop_calls, enqueued, agent_work, agent_others>>

\* APIA_BaseAgent.start
StartCall ==
    /\ agent_status # "unbuilt"
    /\ start_calls < MaxStartCalls
    /\ start_calls' = start_calls + 1
    /\ IF ~RunTaskActive
       THEN /\ stop_event' = FALSE
            /\ run_task' = run_task + 1
            /\ run_tasks' = [run_tasks EXCEPT ![run_task + 1].pc = "created"]
       ELSE UNCHANGED <<stop_event, run_task, run_tasks>>
    /\ UNCHANGED <<agent_status, internal_task_queue, registered,
                   handlers_registered, registry_count, router_count, stopper,
                   stop_calls, enqueued, agent_work, agent_others>>

\* `while not self._stop_event.is_set()` and what follows the loop
LoopCheck(t, status, dequeued) ==
    IF stop_event
    THEN /\ agent_status' = "stopped"
         /\ run_tasks' = [run_tasks EXCEPT ![t].pc = "done",
                                           ![t].dequeued = dequeued,
                                           ![t].item = "none"]
    ELSE /\ agent_status' = status
         /\ run_tasks' = [run_tasks EXCEPT ![t].pc = "get_wait",
                                           ![t].dequeued = dequeued,
                                           ![t].item = "none"]

\* the first step of _start_and_register: the registrations (the locks of the
\* registry and of the router are never held across a suspension, so none of
\* them suspends), then run() up to its first wait
RunTaskStarts(t, registry_ok, router_ok) ==
    LET todo == AgentSkills \ handlers_registered IN
    /\ run_tasks[t].pc = "created"
    /\ ~run_tasks[t].cancel
    /\ router_ok \subseteq todo
    /\ IF registered
       THEN /\ registry_ok
            /\ UNCHANGED <<registered, registry_count>>
       ELSE /\ registered' = registry_ok
            /\ registry_count' = IF registry_ok THEN registry_count + 1
                                 ELSE registry_count
    /\ handlers_registered' = handlers_registered \cup router_ok
    /\ router_count' = [s \in AgentSkills |->
                          IF s \in router_ok THEN router_count[s] + 1
                          ELSE router_count[s]]
    /\ LoopCheck(t, "idle", 0)
    /\ UNCHANGED <<stop_event, internal_task_queue, run_task, stopper,
                   start_calls, stop_calls, enqueued, agent_work,
                   agent_others>>

\* receive_internal_task with the lock: `await queue.put(...)` puts the item
\* and the lock is released, or, the queue being full, waits for a free slot
\* with the lock held (QueueFull is raised by put_nowait only)
PutOrWait(q, lock) ==
    IF full
    THEN /\ producer' = [producer EXCEPT ![q].pc = "put_wait"]
         /\ agent_lock' = lock
         /\ UNCHANGED <<internal_task_queue, enqueued>>
    ELSE /\ producer' = [producer EXCEPT ![q].pc = "idle"]
         /\ agent_lock' = ReleaseLock(lock)
         /\ internal_task_queue' = [internal_task_queue EXCEPT !.items = @ + 1]
         /\ enqueued' = enqueued + 1

\* receive_internal_task is called, at most `max` times in a run
ReceiveStart(q, max) ==
    /\ agent_status # "unbuilt"
    /\ producer[q].pc = "idle"
    /\ ReceiveCalls < max
    /\ q = "q2" => producer["q1"].pc # "idle"
    /\ IF LockFree(agent_lock)
       THEN PutOrWait(q, <<q>>)
       ELSE /\ producer' = [producer EXCEPT ![q].pc = "lock_wait"]
            /\ agent_lock' = Append(agent_lock, q)
            /\ UNCHANGED <<internal_task_queue, enqueued>>
    /\ UNCHANGED <<agent_status, stop_event, run_task, run_tasks, registered,
                   handlers_registered, registry_count, router_count, stopper,
                   start_calls, stop_calls, completed_task_count, error_count,
                   agent_others>>

\* receive_internal_task gets the lock it waited for
ReceiveLockGranted(q) ==
    /\ producer[q].pc = "lock_wait"
    /\ Head(agent_lock) = q
    /\ PutOrWait(q, agent_lock)
    /\ UNCHANGED <<agent_status, stop_event, run_task, run_tasks, registered,
                   handlers_registered, registry_count, router_count, stopper,
                   start_calls, stop_calls, completed_task_count, error_count,
                   agent_others>>

\* the put of receive_internal_task gets a free slot; the lock is released
ReceivePutDone(q) ==
    /\ producer[q].pc = "put_wait"
    /\ ~full
    /\ producer' = [producer EXCEPT ![q].pc = "idle"]
    /\ agent_lock' = ReleaseLock(agent_lock)
    /\ internal_task_queue' = [internal_task_queue EXCEPT !.items = @ + 1]
    /\ enqueued' = enqueued + 1
    /\ UNCHANGED <<agent_status, stop_event, run_task, run_tasks, registered,
                   handlers_registered, registry_count, router_count, stopper,
                   start_calls, stop_calls, completed_task_count, error_count,
                   agent_others>>

\* the handler of Exception of the loop, entered with the lock as it is:
\* status error under the lock, then the sleep; the status is `status` while
\* the loop waits for the lock
ErrorBranch(t, lock, status) ==
    IF LockFree(lock)
    THEN /\ agent_status' = "error"
         /\ agent_lock' = lock
         /\ run_tasks' = [run_tasks EXCEPT ![t].pc = "error_sleep",
                                           ![t].item = "none"]
    ELSE /\ agent_status' = status
         /\ agent_lock' = Append(lock, Run)
         /\ run_tasks' = [run_tasks EXCEPT ![t].pc = "error_lockwait",
                                           ![t].item = "none"]

\* the loop with the lock after a get: status busy; task_data.get("id") works
\* on an item, whose handler is then called, and raises AttributeError on the
\* sentinel, whose task_data is None
Busy(t, item, lock) ==
    IF item = "item"
    THEN /\ agent_status' = "busy"
         /\ agent_lock' = ReleaseLock(lock)
         /\ run_tasks' = [run_tasks EXCEPT ![t].pc = "exec",
                                           ![t].dequeued = @ + 1,
                                           ![t].item = "item"]
    ELSE ErrorBranch(t, ReleaseLock(lock), "busy")

\* queue.get() returns the item of lowest priority number: a work item, or
\* the sentinel, which sorts last
GetItem(t) ==
    LET item == IF internal_task_queue.items > 0 THEN "item" ELSE "sentinel" IN
    /\ run_tasks[t].pc = "get_wait"
    /\ ~run_tasks[t].cancel
    /\ qsize > 0
    /\ internal_task_queue' =
          IF item = "item"
          THEN [internal_task_queue EXCEPT !.items = @ - 1]
          ELSE [internal_task_queue EXCEPT !.sentinels = @ - 1]
    /\ IF LockFree(agent_lock)
       THEN Busy(t, item, <<Run>>)
       ELSE /\ agent_lock' = Append(agent_lock, Run)
            /\ run_tasks' = [run_tasks EXCEPT ![t].pc = "busy_lockwait",
                                              ![t].item = item]
            /\ UNCHANGED agent_status
    /\ UNCHANGED <<stop_event, run_task, registered, handlers_registered,
                   registry_count, router_count, stopper, start_calls,
                   stop_calls, enqueued, producer, completed_task_count,
                   error_count, agent_others>>

\* the 30 s of wait_for pass on an empty queue: run_periodic is called
GetTimeout(t) ==
    /\ run_tasks[t].pc = "get_wait"
    /\ ~run_tasks[t].cancel
    /\ qsize = 0
    /\ run_tasks' = [run_tasks EXCEPT ![t].pc = "periodic"]
    /\ UNCHANGED <<agent_status, stop_event, internal_task_queue, run_task,
                   registered, handlers_registered, registry_count,
                   router_count, stopper, start_calls, stop_calls, enqueued,
                   agent_work, agent_others>>

\* `finally` with the lock: status idle, task_done(); then the loop goes on,
\* or, the handler having been cancelled, CancelledError leaves the loop
IdleWithLock(t, cancelled) ==
    IF cancelled
    THEN /\ agent_status' = "stopped"
         /\ run_tasks' = [run_tasks EXCEPT ![t].pc = "done", ![t].exc = FALSE,
                                           ![t].item = "none"]
    ELSE LoopCheck(t, "idle", run_tasks[t].dequeued)

\* `finally` of the loop after the handler
Finally(t, cancelled) ==
    IF LockFree(agent_lock)
    THEN /\ IdleWithLock(t, cancelled)
         /\ UNCHANGED agent_lock
    ELSE /\ agent_lock' = Append(agent_lock, Run)
         /\ run_tasks' = [run_tasks EXCEPT ![t].pc = "idle_lockwait",
                                           ![t].exc = cancelled,
                                           ![t].cancel = FALSE]
         /\ UNCHANGED agent_status

\* execute_internal_task returns or raises an Exception: one of the counters
\* is incremented, then `finally` marks the agent idle
ExecDone(t, ok) ==
    /\ run_tasks[t].pc = "exec"
    /\ ~run_tasks[t].cancel
    /\ completed_task_count' = IF ok THEN completed_task_count + 1
                               ELSE completed_task_count
    /\ error_count' = IF ok THEN error_count ELSE error_count + 1
    /\ Finally(t, FALSE)
    /\ UNCHANGED <<stop_event, internal_task_queue, run_task, registered,
                   handlers_registered, registry_count, router_count, stopper,
                   start_calls, stop_calls, enqueued, producer, agent_others>>

\* run_periodic returns, or raises and the loop sleeps 5 s in status error
PeriodicDone(t, ok) ==
    /\ run_tasks[t].pc = "periodic"
    /\ ~run_tasks[t].cancel
    /\ IF ok
       THEN /\ LoopCheck(t, agent_status, run_tasks[t].dequeued)
            /\ UNCHANGED agent_lock
       ELSE ErrorBranch(t, agent_lock, agent_status)
    /\ UNCHANGED <<stop_event, internal_task_queue, run_task, registered,
                   handlers_registered, registry_count, router_count, stopper,
                   start_calls, stop_calls, enqueued, producer,
                   completed_task_count, error_count, agent_others>>

\* the loop gets the lock it waited for: before marking the agent busy, in
\* `finally`, or in the handler of Exception
RunLockGranted(t) ==
    /\ run_tasks[t].pc \in LockWaits
    /\ ~run_tasks[t].cancel
    /\ Head(agent_lock) = Run
    /\ CASE run_tasks[t].pc = "busy_lockwait" ->
              Busy(t, run_tasks[t].item, agent_lock)
         [] run_tasks[t].pc = "idle_lockwait" ->
              /\ agent_lock' = ReleaseLock(agent_lock)
              /\ IdleWithLock(t, run_tasks[t].exc)
         [] run_tasks[t].pc = "error_lockwait" ->
              /\ agent_status' = "error"
              /\ agent_lock' = ReleaseLock(agent_lock)
              /\ run_tasks' = [run_tasks EXCEPT ![t].pc = "error_sleep"]
    /\ UNCHANGED <<stop_event, internal_task_queue, run_task, registered,
                   handlers_registered, registry_count, router_count, stopper,
                   start_calls, stop_calls, enqueued, producer,
                   completed_task_count, error_count, agent_others>>

\* the sleep after an error ends
ErrorSleepDone(t) ==
    /\ run_tasks[t].pc = "error_sleep"
    /\ ~run_tasks[t].cancel
    /\ LoopCheck(t, agent_status, run_tasks[t].dequeued)
    /\ UNCHANGED <<stop_event, internal_task_queue, run_task, registered,
                   handlers_registered, registry_count, router_count, stopper,
                   start_calls, stop_calls, enqueued, agent_work,
                   agent_others>>

\* CancelledError reaches the run task at its suspension point: inside the
\* try of the loop it is caught and the loop is left (status stopped), after
\* `finally` when the handler was running; inside the handlers of
\* TimeoutError and Exception it leaves run() as it is; a task cancelled
\* before its first step never runs
RunTaskCancelled(t) ==
    /\ run_tasks[t].pc \in RunWaits \cup {"created"}
    /\ run_tasks[t].cancel
    /\ IF run_tasks[t].pc = "exec"
       THEN Finally(t, TRUE)
       ELSE /\ run_tasks' = [run_tasks EXCEPT ![t].pc = "done",
                                              ![t].item = "none",
                                              ![t].exc = FALSE]
            /\ agent_lock' = IF run_tasks[t].pc \in LockWaits
                             THEN LeaveLock(agent_lock, Run) ELSE agent_lock
            /\ agent_status' =
                  IF run_tasks[t].pc \in {"get_wait", "busy_lockwait",
                                          "idle_lockwait"}
                  THEN "stopped" ELSE agent_status
    /\ UNCHANGED <<stop_event, internal_task_queue, run_task, registered,
                   handlers_registered, registry_count, router_count, stopper,
                   start_calls, stop_calls, enqueued, producer,
                   completed_task_count, error_count, agent_others>>

\* stop() after the sentinel is on the queue: wait for the run task if there
\* is an active one, else mark the agent stopped and return
AfterSentinel(s) ==
    IF RunTaskActive
    THEN /\ stopper' = [stopper EXCEPT ![s].pc = "wait_run",
                                       ![s].target = run_task]
         /\ UNCHANGED agent_status
    ELSE /\ stopper' = [stopper EXCEPT ![s].pc = "done"]
         /\ agent_status' = "stopped"

\* APIA_BaseAgent.stop up to its first suspension
StopStart(s) ==
    /\ agent_status # "unbuilt"
    /\ stopper[s].pc = "idle"
    /\ s = "s2" => stopper["s1"].pc # "idle"
    /\ stop_calls' = stop_calls + 1
    /\ IF stop_event
       THEN /\ stopper' = [stopper EXCEPT ![s].pc = "done", ![s].early = TRUE]
            /\ UNCHANGED <<agent_status, stop_event, internal_task_queue>>
       ELSE /\ stop_event' = TRUE
            /\ IF full
               THEN /\ stopper' = [stopper EXCEPT ![s].pc = "put_wait"]
                    /\ UNCHANGED <<agent_status, internal_task_queue>>
               ELSE /\ internal_task_queue' =
                          [internal_task_queue EXCEPT !.sentinels = @ + 1]
                    /\ AfterSentinel(s)
    /\ UNCHANGED <<run_task, run_tasks, registered, handlers_registered,
                   registry_count, router_count, start_calls, enqueued,
                   agent_work, agent_others>>

\* `await self.internal_task_queue.put(...)` of stop() gets a free slot
StopPutDone(s) ==
    /\ stopper[s].pc = "put_wait"
    /\ ~full
    /\ internal_task_queue' = [internal_task_queue EXCEPT !.sentinels = @ + 1]
    /\ AfterSentinel(s)
    /\ UNCHANGED <<stop_event, run_task, run_tasks, registered,
                   handlers_registered, registry_count, router_count,
                   start_calls, stop_calls, enqueued, agent_work,
                   agent_others>>

\* the run task that wait_for was given ends within the 5 s
StopWaitEnds(s) ==
    /\ stopper[s].pc = "wait_run"
    /\ run_tasks[stopper[s].target].pc = "done"
    /\ stopper' = [stopper EXCEPT ![s].pc = "done"]
    /\ agent_status' = "stopped"
    /\ UNCHANGED <<stop_event, internal_task_queue, run_task, run_tasks,
                   registered, handlers_registered, registry_count,
                   router_count, start_calls, stop_calls, enqueued,
                   agent_work, agent_others>>

\* the 5 s pass: wait_for cancels the run task it was given and waits for
\* its end
StopTimeout(s) ==
    /\ stopper[s].pc = "wait_run"
    /\ run_tasks[stopper[s].target].pc \in RunWaits
    /\ run_tasks' = [run_tasks EXCEPT ![stopper[s].target].cancel = TRUE]
    /\ stopper' = [stopper EXCEPT ![s].pc = "timeout_wait"]
    /\ UNCHANGED <<agent_status, stop_event, internal_task_queue, run_task,
                   registered, handlers_registered, registry_count,
                   router_count, start_calls, stop_calls, enqueued,
                   agent_work, agent_others>>

\* TimeoutError reaches stop(): self._run_task.cancel(), then it is awaited
StopAfterTimeout(s) ==
    /\ stopper[s].pc = "timeout_wait"
    /\ run_tasks[stopper[s].target].pc = "done"
    /\ IF RunTaskActive
       THEN /\ run_tasks' = [run_tasks EXCEPT ![run_task].cancel = TRUE]
            /\ stopper' = [stopper EXCEPT ![s].pc = "cancel_wait",
                                          ![s].target = run_task]
            /\ UNCHANGED agent_status
       ELSE /\ stopper' = [stopper EXCEPT ![s].pc = "done"]
            /\ agent_status' = "stopped"
            /\ UNCHANGED run_tasks
    /\ UNCHANGED <<stop_event, internal_task_queue, run_task, registered,
                   handlers_registered, registry_count, router_count,
                   start_calls, stop_calls, enqueued, agent_work,
                   agent_others>>

\* `await self._run_task` of stop() after the cancel ends
StopCancelWaitEnds(s) ==
    /\ stopper[s].pc = "cancel_wait"
    /\ run_tasks[stopper[s].target].pc = "done"
    /\ stopper' = [stopper EXCEPT ![s].pc = "done"]
    /\ agent_status' = "stopped"
    /\ UNCHANGED <<stop_event, internal_task_queue, run_task, run_tasks,
                   registered, handlers_registered, registry_count,
                   router_count, start_calls, stop_calls, enqueued,
                   agent_work, agent_others>>

\* the steps of the run task: the event loop takes them when they can be
\* taken, and execute_internal_task and run_periodic come to an end
RunTaskSteps ==
    \E t \in RunTaskNos :
        \/ \E ok \in BOOLEAN, hs \in SUBSET AgentSkills : RunTaskStarts(t, ok, hs)
        \/ GetItem(t)
        \/ GetTimeout(t)
        \/ \E ok \in BOOLEAN : ExecDone(t, ok)
        \/ \E ok \in BOOLEAN : PeriodicDone(t, ok)
        \/ RunLockGranted(t)
        \/ ErrorSleepDone(t)
        \/ RunTaskCancelled(t)

\* the steps of a stop() under way
StopSteps(s) ==
    \/ StopPutDone(s)
    \/ StopWaitEnds(s)
    \/ StopTimeout(s)
    \/ StopAfterTimeout(s)
    \/ StopCancelWaitEnds(s)

\* the steps of a receive_internal_task under way
ReceiveSteps(q) ==
    \/ ReceiveLockGranted(q)
    \/ ReceivePutDone(q)

AgentInit ==
    /\ agent_status = "unbuilt"
    /\ stop_event = FALSE
    /\ internal_task_queue = [items |-> 0, sentinels |-> 0]
    /\ run_task = 0
    /\ run_tasks = [t \in RunTaskNos |-> NoRunTask]
    /\ registered = FALSE
    /\ handlers_registered = {}
    /\ registry_count = 0
    /\ router_count = [s \in AgentSkills |-> 0]
    /\ stopper = [s \in Stoppers |-> NoStopper]
    /\ start_calls = 0
    /\ stop_calls = 0
    /\ enqueued = 0
    /\ agent_lock = <<>>
    /\ producer = [q \in Producers |-> NoProducer]
    /\ completed_task_count = 0
    /\ error_count = 0

\* the steps of an agent whose stop() is called by `stoppers` and whose
\* receive_internal_task is called at most `max` times
AgentSteps(stoppers, max) ==
    \/ Construct
    \/ StartCall
    \/ \E t \in RunTaskNos, ok \in BOOLEAN, hs \in SUBSET AgentSkills :
          RunTaskStarts(t, ok, hs)
    \/ \E q \in Producers : ReceiveStart(q, max)
    \/ \E q \in Producers : ReceiveLockGranted(q)
    \/ \E q \in Producers : ReceivePutDone(q)
    \/ \E t \in RunTaskNos : GetItem(t)
    \/ \E t \in RunTaskNos : GetTimeout(t)
    \/ \E t \in RunTaskNos, ok \in BOOLEAN : ExecDone(t, ok)
    \/ \E t \in RunTaskNos, ok \in BOOLEAN : PeriodicDone(t, ok)
    \/ \E t \in RunTaskNos : RunLockGranted(t)
    \/ \E t \in RunTaskNos : ErrorSleepDone(t)
    \/ \E t \in RunTaskNos : RunTaskCancelled(t)
    \/ \E s \in stoppers : StopStart(s)
    \/ \E s \in stoppers : StopPutDone(s)
    \/ \E s \in stoppers : StopWaitEnds(s)
    \/ \E s \in stoppers : StopTimeout(s)
    \/ \E s \in stoppers : StopAfterTimeout(s)
    \/ \E s \in stoppers : StopCancelWaitEnds(s)

AgentNext == AgentSteps(Stoppers, MaxItems)

\* the agent with one stop() and more work
WorkNext == AgentSteps(WorkStoppers, MaxWorkItems)

\* ------------------------------------------------------------------- spec
InitWith(clients) ==
    /\ may = clients
    /\ tasks = [id \in TaskIds |-> NoTask]
    /\ task_locks = [id \in TaskIds |-> 0]
    /\ lock_count = [id \in TaskIds |-> 0]
    /\ a2a_dlq = <<>>
    /\ metrics = [m \in {"received", "completed", "failed", "canceled"} |-> 0]
    /\ handlers = [s \in Skills |-> IF s = "echo" THEN "echo_handler" ELSE None]
    /\ default_handler = None
    /\ pc = [p \in Procs |-> "idle"]
    /\ op = [p \in Procs |-> None]
    /\ tid = [p \in Procs |-> None]
    /\ hl = [p \in Procs |-> 0]
    /\ lockref = [p \in Procs |-> 0]
    /\ holds = [p \in Procs |-> 0]
    /\ mread = [p \in Procs |-> 0]
    /\ outcome = [p \in Procs |-> NoOutcome]
    /\ ret = [p \in Procs |-> NoRet]
    /\ sink = [p \in Procs |-> <<>>]
    /\ nupd = [p \in Procs |-> 0]
    /\ MCPInit
    /\ ClientInit
    /\ DiscoverInit
    /\ RouterInit
    /\ AgentInit

\* three clients: one sends, one sends, cancels or gets, one cancels, gets or
\* is the sweep
Clients == [p \in Procs |-> CASE p = "p1" -> {"send", "sub"}
                              [] p = "p2" -> {"send", "cancel", "get"}
                              [] p = "p3" -> {"cancel", "get", "sweep"}]

\* task ids are interchangeable: the id the first client uses is called t1
IdsOf(p) == IF p = "p1" THEN {"t1"} ELSE TaskIds

Next ==
    \E p \in Procs :
        \/ \E id \in IdsOf(p), parts \in Messages, skill \in Skills :
              StartSend(p, id, parts, skill)
        \/ SendCS1(p)
        \/ ReceivedMetricWrite(p)
        \/ HandlerCall(p)
        \/ \E o \in SendOutcomes : SendHandlerDone(p, o)
        \/ SendCS2(p)
        \/ SendM2W(p)
        \/ SendFin(p)
        \/ SendCS3(p)
        \/ \E id \in IdsOf(p), parts \in Messages, skill \in Skills :
              StartSub(p, id, parts, skill)
        \/ SubCS1(p)
        \/ SubHandlerUpdate(p)
        \/ \E o \in Outcomes : SubHandlerDone(p, o)
        \/ SubCS2(p)
        \/ SubM2W(p)
        \/ SubEnd(p)
        \/ \E id \in IdsOf(p), n \in 0..MaxN : StartGet(p, id, n)
        \/ GetCS(p)
        \/ \E id \in IdsOf(p) : StartCancel(p, id)
        \/ CancelCS(p)
        \/ CancelMW(p)
        \/ CancelEnd(p)
        \/ \E old \in SUBSET TaskIds : CleanupOldTasks(p, old)
        \/ AcquireWaited(p)

Init == InitWith(Clients)

Spec == Init /\ [][Next]_vars

\* the manager with _remove_task driven for any id, as the second pass of the
\* sweep drives it for the ids the first pass selected
RemoveNext == \E p \in Procs : (\E id \in IdsOf(p) : StartRemove(p, id)) \/ RemoveCS(p)

\* the clients of the runs with removals: the third one removes or sweeps
RemoveClients == [Clients EXCEPT !["p3"] = {"remove", "sweep"}]

SpecRemove == InitWith(RemoveClients) /\ [][Next \/ RemoveNext]_vars

\* the MCP client manager alone, the task manager at rest
SpecMCP == Init /\ [][MCPNext]_vars

\* send_task of the A2A client manager alone
SpecClient == Init /\ [][ClientNext]_vars

\* discover_agent of the A2A client manager alone
SpecDiscover == Init /\ [][DiscoverNext]_vars

\* the router alone: registrations, lookups and routed sends
SpecRouter == Init /\ [][RouterNext]_vars

\* one agent: construction, start, the run loop, stop
SpecAgent ==
    /\ Init /\ [][AgentNext]_vars
    /\ WF_vars(RunTaskSteps)
    /\ \A s \in Stoppers : WF_vars(StopSteps(s))
    /\ \A q \in Producers : WF_vars(ReceiveSteps(q))

\* one agent with one stop(): the run loop and its producers
SpecWork ==
    /\ Init /\ [][WorkNext]_vars
    /\ WF_vars(RunTaskSteps)
    /\ \A s \in WorkStoppers : WF_vars(StopSteps(s))
    /\ \A q \in Producers : WF_vars(ReceiveSteps(q))

\* ---------------------------------------------------------------- fairness
\* the steps of a request that the event loop runs as soon as they can run:
\* everything but the arrival of the request and the collaborator's handler
Steps(p) ==
    \/ SendCS1(p) \/ ReceivedMetricWrite(p) \/ HandlerCall(p) \/ SendCS2(p)
    \/ SendM2W(p) \/ SendFin(p) \/ SendCS3(p) \/ SubCS1(p) \/ SubCS2(p)
    \/ SubM2W(p) \/ SubEnd(p) \/ GetCS(p) \/ CancelCS(p) \/ CancelMW(p)
    \/ CancelEnd(p) \/ AcquireWaited(p)

\* the collaborator's handler comes to an end
HandlerEnds(p) ==
    \/ \E o \in SendOutcomes : SendHandlerDone(p, o)
    \/ \E o \in Outcomes : SubHandlerDone(p, o)

\* send, get and cancel alone
NextCore ==
    \E p \in Procs :
        \/ \E id \in IdsOf(p), parts \in Messages, skill \in Skills :
              StartSend(p, id, parts, skill)
        \/ SendCS1(p)
        \/ ReceivedMetricWrite(p)
        \/ HandlerCall(p)
        \/ \E o \in SendOutcomes : SendHandlerDone(p, o)
        \/ SendCS2(p)
        \/ SendM2W(p)
        \/ SendFin(p)
        \/ SendCS3(p)
        \/ \E id \in IdsOf(p), n \in 0..MaxN : StartGet(p, id, n)
        \/ GetCS(p)
        \/ \E id \in IdsOf(p) : StartCancel(p, id)
        \/ CancelCS(p)
        \/ CancelMW(p)
        \/ CancelEnd(p)
        \/ AcquireWaited(p)

\* the first client sends, the others send, get or cancel
CoreClients == [p \in Procs |-> IF p = "p1" THEN {"send"}
                                ELSE IF p = "p2" THEN {"send", "get", "cancel"}
                                ELSE {"get", "cancel"}]

\* the event loop is fair to every request; the handlers of the second and third
\* client terminate, the handler of the first client may stay suspended for ever
SpecSlowHandler ==
    /\ InitWith(CoreClients) /\ [][NextCore]_vars
    /\ \A p \in Procs : WF_vars(Steps(p))
    /\ \A p \in Procs \ {"p1"} : WF_vars(HandlerEnds(p))

\* every operation of the manager and the removal path, with a fair event loop
\* and handlers that terminate
SpecLive ==
    /\ InitWith(RemoveClients) /\ [][Next \/ RemoveNext]_vars
    /\ \A p \in Procs : WF_vars(Steps(p) \/ RemoveCS(p) \/ HandlerEnds(p))

\* -------------------------------------------------------------- properties
\* the third client, when two are named, has not touched the id
OnlyOn(id, S) == \A r \in Procs \ S : tid[r] # id

\* the request went past validation, routing and the state check
Accepted(p) ==
    /\ op[p] \in {"send", "sub"}
    /\ outcome[p].kind # None \/ pc[p] \in {"m1w", "m1e", "handler"}

\* number of events with final = true on a sink
NFinal(q) == Cardinality({i \in 1..Len(q) : q[i].final})

\* the last min(n, Len(h)) entries of h
LastN(h, n) ==
    LET k == IF n < Len(h) THEN n ELSE Len(h) IN SubSeq(h, Len(h) - k + 1, Len(h))

\* C1: after a send whose handler returned status S and artifacts A, and with
\* no other operation on the id, a get of the id returns status S and
\* artifacts A.
C1_SendThenGet ==
    \A q \in Procs, g \in Procs :
        ( /\ op[q] = "send" /\ pc[q] = "done" /\ outcome[q].kind = "returned"
          /\ op[g] = "get" /\ tid[g] = tid[q] /\ pc[g] = "get_cs"
          /\ OnlyOn(tid[q], {q, g}) )
        => /\ GetReturn(tid[g], hl[g]).kind = "task"
           /\ GetReturn(tid[g], hl[g]).task.status.state = outcome[q].state
           /\ GetReturn(tid[g], hl[g]).task.artifacts = outcome[q].artifacts

\* C2: once the handler of an accepted send or send_subscribe has finished and
\* the operation has ended, the stored status of the task is one of completed,
\* canceled, failed (stated for handlers that raise or return a terminal
\* status, and for an id no other request sends to).
C2_TerminalAfterHandler ==
    \A q \in Procs :
        ( /\ op[q] \in {"send", "sub"} /\ pc[q] = "done"
          /\ \/ outcome[q].kind = "raised"
             \/ outcome[q].kind = "returned" /\ outcome[q].state \in TerminalStates
          /\ \A r \in Procs \ {q} : ~(op[r] \in {"send", "sub"} /\ tid[r] = tid[q]) )
        => tasks[tid[q]].status.state \in TerminalStates

\* C3: when the handler raises during send, send returns the task, the stored
\* status is failed with the exception text, and the dead-letter queue has an
\* entry for the id.
C3_RaiseBecomesFailed ==
    \A q \in Procs :
        ( /\ op[q] = "send" /\ pc[q] = "done" /\ outcome[q].kind = "raised"
          /\ \A r \in Procs \ {q} : ~(op[r] \in {"send", "sub"} /\ tid[r] = tid[q]) )
        => /\ ret[q].kind = "task"
           /\ tasks[tid[q]].status = A2ATaskState("failed", "internal error")
           /\ ret[q].task.status = A2ATaskState("failed", "internal error")
           /\ \E i \in 1..Len(a2a_dlq) : a2a_dlq[i][1] = tid[q]

\* C4: every send_subscribe that passed validation and routing puts exactly
\* one event with final = true on its sink, as the last event, whether the
\* handler returned (any status) or raised; before the handler has finished
\* there is none.
C4_OneFinalEvent ==
    \A p \in Procs : op[p] = "sub" =>
        /\ NFinal(sink[p]) <= 1
        /\ outcome[p].kind = None /\ pc[p] # "done" => NFinal(sink[p]) = 0
        /\ outcome[p].kind # None =>
              NFinal(sink[p]) = 1 /\ sink[p][Len(sink[p])].final
        /\ pc[p] = "done" /\ ret[p].kind = "returned" => NFinal(sink[p]) = 1

C4_Witness ==
    \E p \in Procs :
        /\ op[p] = "sub" /\ pc[p] = "done" /\ outcome[p].kind = "raised"
        /\ NFinal(sink[p]) = 1 /\ Len(sink[p]) = 3

\* no request holds a per-task lock while its handler runs
NoLockInHandler == \A p \in Procs : pc[p] = "handler" => holds[p] = 0

\* C5: no lock is held while a handler executes, and while the handler of the
\* first client stays suspended (for ever, even) every request of the other
\* clients, on the same id or on another one, runs to completion.
C5_HandlerHoldsNoLock ==
    /\ []NoLockInHandler
    /\ \A q \in Procs \ {"p1"} : (pc[q] # "idle") ~> (pc[q] = "done")

C5_Witness ==
    /\ pc["p1"] = "handler"
    /\ pc["p2"] = "done" /\ op["p2"] = "cancel" /\ tid["p2"] = "t1"
    /\ ret["p2"].kind = "task"
    /\ pc["p3"] = "done" /\ op["p3"] = "get" /\ tid["p3"] = "t1"
    /\ ret["p3"].kind = "task"

\* one step of the history of a task: an accepted send appends its own message
\* at the end while it holds the lock of the task, nothing else changes it
HistoryStep ==
    \A id \in TaskIds :
        /\ \A p \in Procs :
              ( /\ pc[p] \in {"send_cs1", "sub_cs1"} /\ tid[p] = id
                /\ pc'[p] \in {"handler", "m1w"} )
              => /\ holds[p] # 0
                 /\ tasks'[id].history = Append(tasks[id].history, p)
        /\ tasks'[id].history # tasks[id].history
              => \E p \in Procs :
                    /\ pc[p] \in {"send_cs1", "sub_cs1"} /\ tid[p] = id
                    /\ pc'[p] \in {"handler", "m1w"}

\* k accepted sends have left k messages, and one lock serializes them
HistoryCount ==
    \A id \in TaskIds :
        /\ Len(tasks[id].history) =
              Cardinality({p \in Procs : Accepted(p) /\ tid[p] = id})
        /\ \A p \in Procs, q \in Procs :
              (p # q /\ tid[p] = id /\ tid[q] = id /\ holds[p] # 0) => holds[q] = 0

\* C6: the history of a task is append-only and ordered by the acquisition of
\* the lock of the task: every accepted send appends its own message at the
\* end, k accepted sends leave k messages, and cancel, get and the handler
\* commits leave the history as it is.
C6_HistoryAppendOnly == []HistoryCount /\ [][HistoryStep]_vars

C6_Witness ==
    /\ Len(tasks["t1"].history) = 2
    /\ op["p1"] = "sub" /\ pc["p1"] = "done"
    /\ op["p2"] = "send" /\ pc["p2"] = "done"
    /\ op["p3"] = "cancel" /\ pc["p3"] = "done" /\ ret["p3"].kind = "task"

C8_CancelSetsCanceled ==
    [][\A c \in Procs :
          ( /\ pc[c] = "cancel_cs" /\ pc'[c] # "cancel_cs"
            /\ tasks[tid[c]] # NoTask )
          => IF tasks[tid[c]].status.state \in TerminalStates
             THEN /\ tasks'[tid[c]] = tasks[tid[c]]
                  /\ ret'[c] = RetTask(tasks[tid[c]])
             ELSE /\ tasks'[tid[c]].status.state = "canceled"
                  /\ tasks'[tid[c]].artifacts = <<>>]_vars

\* C9: two consecutive cancels of an existing task (neither met an unknown id,
\* the handler of the task is still running) both succeed and both return
\* status canceled.
C9_CancelTwice ==
    \A c \in Procs, d \in Procs :
        ( /\ c # d /\ op[c] = "cancel" /\ op[d] = "cancel"
          /\ tid[c] = tid[d] /\ pc[c] = "done" /\ pc[d] = "done"
          /\ ret[c].kind # "error" /\ ret[d].kind # "error"
          /\ \E s \in Procs : tid[s] = tid[c] /\ pc[s] = "handler" )
        => /\ ret[c].kind = "task" /\ ret[d].kind = "task"
           /\ ret[c].task.status.state = "canceled"
           /\ ret[d].task.status.state = "canceled"

\* C10: get(id, N) returns the last min(N, length) messages of the stored
\* history in stored order (none for N = 0), and fails with not-found for an
\* unknown id.
C10_GetLastN ==
    \A g \in Procs : pc[g] = "get_cs" =>
        IF tasks[tid[g]] = NoTask
        THEN GetReturn(tid[g], hl[g]) = A2AError(-32001)
        ELSE /\ GetReturn(tid[g], hl[g]).kind = "task"
             /\ GetReturn(tid[g], hl[g]).task.history =
                   LastN(tasks[tid[g]].history, hl[g])

\* the get of g leaves its section in this step
GetReturns(g) == pc[g] = "get_cs" /\ pc'[g] = "done"

\* C11: a get never changes the stored record, and a second get of an id with
\* the same history length, no message having been added to the task since
\* the first one, returns the same status and the same artifacts.
C11_GetTwice ==
    [][\A g \in Procs : GetReturns(g) =>
          /\ tasks' = tasks
          /\ \A f \in Procs \ {g} :
                ( /\ op[f] = "get" /\ pc[f] = "done" /\ ret[f].kind = "task"
                  /\ tid[f] = tid[g] /\ hl[f] = hl[g]
                  /\ tasks[tid[g]].history = ret[f].task.history )
                => /\ ret'[g].kind = "task"
                   /\ ret'[g].task.status = ret[f].task.status
                   /\ ret'[g].task.artifacts = ret[f].task.artifacts]_vars

C11_Witness ==
    /\ op["p2"] = "get" /\ pc["p2"] = "done" /\ ret["p2"].kind = "task"
    /\ op["p3"] = "get" /\ pc["p3"] = "done" /\ ret["p3"] = ret["p2"]
    /\ tid["p2"] = tid["p3"] /\ hl["p2"] = hl["p3"]
    /\ Len(tasks[tid["p2"]].history) = 1

\* invalid params: no message part, an empty text or data part, a file part
\* with neither bytes nor an http(s) URI
InvalidParams(parts) ==
    \/ parts = <<>>
    \/ \E i \in 1..Len(parts) :
          parts[i] \in {"emptytext", "emptydata", "file_none", "file_ftp"}

\* a send or send_subscribe of p arrives in this step
Arrives(p) == pc[p] = "idle" /\ pc'[p] # "idle" /\ op'[p] \in {"send", "sub"}

\* the request of p is refused with the code and never reaches a handler
Refused(p, code) ==
    /\ ret'[p] = A2AError(code)
    /\ pc'[p] = "done"
    /\ tasks' = tasks
    /\ metrics' = metrics
    /\ outcome' = outcome
    /\ sink' = sink

\* C12: send and send_subscribe with invalid params fail with -32602 before
\* any state change: no task record, no handler call, task table, dead-letter
\* queue and counters unchanged.
C12_InvalidParamsRefused ==
    [][\A p \in Procs : Arrives(p) =>
          \A parts \in Messages, skill \in Skills :
             ( /\ InvalidParams(parts)
               /\ \/ StartSend(p, tid'[p], parts, skill)
                  \/ StartSub(p, tid'[p], parts, skill) )
             => Refused(p, -32602) /\ a2a_dlq' = a2a_dlq]_vars

C12_Witness ==
    \E p \in Procs, q \in Procs :
        /\ op[p] = "send" /\ pc[p] = "done" /\ ret[p] = A2AError(-32602)
        /\ op[q] = "sub" /\ pc[q] = "done" /\ ret[q] = A2AError(-32602)
        /\ tasks[tid[p]] = NoTask /\ tasks[tid[q]] = NoTask
        /\ a2a_dlq = <<>>

\* C13: send or send_subscribe for a skill without a specific handler, no
\* default handler being registered, fails with -32601, appends exactly one
\* dead-letter entry for the task id, creates no task record and calls no
\* handler.
C13_NoHandlerRefused ==
    [][\A p \in Procs : Arrives(p) =>
          \A parts \in Messages, skill \in Skills :
             ( /\ ~InvalidParams(parts)
               /\ handlers[skill] = None /\ default_handler = None
               /\ \/ StartSend(p, tid'[p], parts, skill)
                  \/ StartSub(p, tid'[p], parts, skill) )
             => /\ Refused(p, -32601)
                /\ Len(a2a_dlq') = Len(a2a_dlq) + 1
                /\ SubSeq(a2a_dlq', 1, Len(a2a_dlq)) = a2a_dlq
                /\ Len(a2a_dlq'[Len(a2a_dlq')]) = 3
                /\ a2a_dlq'[Len(a2a_dlq')][1] = tid'[p]]_vars

C13_Witness ==
    \E p \in Procs :
        /\ op[p] = "sub" /\ pc[p] = "done" /\ ret[p] = A2AError(-32601)
        /\ tasks[tid[p]] = NoTask
        /\ a2a_dlq = <<<<tid[p], "tasks/send", "no handler">>>>

\* the connection attempts for a server that are in flight
InFlight(n) ==
    {t \in TaskNos : connect_task[t].name = n /\ ~TaskDone(t)
                     /\ connect_task[t].pc # "none"}

\* C14: for each server name at most one connection attempt is in flight at
\* any time, and the callers that wait for a session of the server wait for
\* that one attempt.
C14_OneAttemptInFlight ==
    \A n \in ServerNames :
        /\ Cardinality(InFlight(n)) <= 1
        /\ \A c \in Callers, d \in Callers :
              ( /\ caller[c].pc = "await" /\ caller[c].name = n
                /\ caller[d].pc = "await" /\ caller[d].name = n
                /\ ~TaskDone(caller[c].awaits) /\ ~TaskDone(caller[d].awaits) )
              => caller[c].awaits = caller[d].awaits

\* the connection task t ends in this step with a failure
AttemptFails(t) ==
    /\ ~TaskDone(t)
    /\ connect_task'[t].pc = "done"
    /\ connect_task'[t].res \in {"ConfigurationError", "ConnectionError"}

\* C15: once a connection attempt for a server has failed (the server being
\* unconfigured included) the session table, the context table and the
\* connection-attempt table hold no entry for the server, and the next
\* get_session or call_tool for it starts a fresh attempt.
C15_FailureLeavesNoEntry ==
    [][/\ \A t \in TaskNos : AttemptFails(t) =>
             LET n == connect_task[t].name IN
             /\ ~Has(sessions', n)
             /\ contexts'[n] = 0
             /\ ~Has(connection_tasks', n)
       /\ \A c \in Callers :
             ( /\ caller[c].pc # "await" /\ caller'[c].pc = "await"
               /\ Has(connection_tasks, caller'[c].name)
               /\ connect_task[Get(connection_tasks, caller'[c].name)].res
                     \in {"ConfigurationError", "ConnectionError"} )
             => connect_task[caller'[c].awaits].pc = "none"]_vars

\* C16: every failure of call_tool reaches the caller as ActionFailedError:
\* call_tool ends with a result or with ActionFailedError, never with another
\* exception.
C16_CallToolFailsTyped ==
    \A c \in Callers :
        (caller[c].pc = "ret" /\ caller[c].op = "call_tool")
        => caller[c].res \in {"result", "ActionFailedError"}

\* C17: close_all never raises and skips no teardown: when it has ended it has
\* gone through every connection task and every session of its two loops.
C17_CloseAllTearsDownAll ==
    closer.pc = "done" =>
        /\ closer.res = "closed"
        /\ closer.i = Len(closer.snap) + 1
        /\ closer.j = Len(closer.names) + 1

\* the read loop has taken a line that carried this kind
LastLineIs(kind) == line_no > 0 /\ response_lines[line_no] = kind

\* C18: a task that send_task returns after streaming is fetched with
\* get_task unless the stream carried a final status event: it is never built
\* from a status event that was not final.
C18_IncompleteStreamFetches ==
    (send_pc = "done" /\ send_ret.kind = "task")
    => (send_ret.via = "rpc" \/ LastLineIs("status_final"))

\* C19: a final status event ends the read loop and send_task returns a task
\* with that event's status; an error event is handed to the sink, ends the
\* loop and send_task raises; after either no further line is taken and
\* nothing more reaches the sink.
C19_FinalAndErrorEndTheLoop ==
    [][/\ LastLineIs("status_final")' =>
             /\ send_pc' = "done"
             /\ send_ret' = SentTask("stream", EventOf("status_final").state)
             /\ callback_log'[Len(callback_log')] = EventOf("status_final")
       /\ LastLineIs("error")' =>
             /\ send_pc' = "done"
             /\ send_ret'.kind \notin {None, "task"}
             /\ callback_log'[Len(callback_log')] = ExceptionEvent("A2AError")
       /\ (LastLineIs("status_final") \/ LastLineIs("error")) =>
             /\ line_no' = line_no
             /\ callback_log' = callback_log]_vars

\* a final status event that followed a non-final one and was followed by
\* more of the stream ended send_task
C19_Witness ==
    /\ send_pc = "done"
    /\ line_no = 2
    /\ Len(response_lines) > line_no
    /\ response_lines[1] = "status_working"
    /\ LastLineIs("status_final")
    /\ send_ret = SentTask("stream", "completed")

\* the lines the read loop is to skip as malformed
MalformedLines == {"bad_json", "json_scalar", "json_list", "status_bad",
                   "artifact_bad"}

\* C20: a malformed line is skipped: taking it delivers nothing to the sink,
\* does not end the loop and changes nothing send_task remembers.
C20_MalformedLineSkipped ==
    [][( /\ send_pc = "reading"
         /\ line_no' = line_no + 1
         /\ response_lines[line_no + 1] \in MalformedLines )
       => UNCHANGED <<callback_log, last_known_task_state, stream_exc,
                      send_pc, send_ret>>]_vars

\* C21: once a card is cached under a key, every discover_agent of a url with
\* that key returns the cached card at once, without a fetch, and the entry is
\* never removed or replaced; a failed discover_agent leaves the cache as it
\* was.
C21_CacheIsStable ==
    [][/\ \A k \in CacheKeys :
             remote_agents[k] # NoCard => remote_agents'[k] = remote_agents[k]
       /\ \A d \in Discoverers :
             ( /\ disc[d].pc = "idle" /\ disc'[d].pc # "idle"
               /\ remote_agents[disc'[d].key] # NoCard )
             => /\ disc'[d].pc = "done"
                /\ disc'[d].ret = ReturnsCard(remote_agents[disc'[d].key])
                /\ ~disc'[d].fetched
       /\ \A d \in Discoverers :
             ( /\ disc[d].pc = "fetch"
               /\ disc'[d].ret.kind \in {"ConnectionError", "APIAException"} )
             => remote_agents' = remote_agents]_vars

\* the step is a router call of this kind
RouterCalls(o) == router_calls' = router_calls + 1 /\ last_call'.op = o

\* C22: registering an asynchronous handler for a skill that has one makes
\* the new handler the one resolve returns for the skill; the old handler is
\* returned afterwards only for skills it is still registered under (or as
\* the default); the other skills keep their handler, and each skill maps
\* to one handler or to none.
C22_SecondRegistrationWins ==
    [][\A s \in Skills, h \in AsyncHandlers, g \in AsyncHandlers \cup {None} :
          ( /\ RouterCalls("register_handler")
            /\ last_call'.skill = s
            /\ last_call'.handler = h
            /\ last_call'.old = g )
          => /\ get_handler(s)' = h
             /\ \A q \in Skills \ {s} : handlers'[q] = handlers[q]
             /\ handlers' \in [Skills -> AsyncHandlers \cup {None}]
             /\ (g # None /\ g # h) =>
                   \A q \in ResolveIds :
                       get_handler(q)' = g =>
                           \/ q \in Skills /\ q # s /\ handlers[q] = g
                           \/ default_handler = g]_vars

\* h2 was registered for a skill that had h1
C22_Witness ==
    /\ last_call.op = "register_handler"
    /\ last_call.old = "h1"
    /\ last_call.handler = "h2"
    /\ handlers[last_call.skill] = "h2"

\* C23: get_handler returns the handler registered for the skill if there is
\* one, else the default handler if there is one, else none, and leaves the
\* registry as it was.
C23_ResolveOrder ==
    [][RouterCalls("get_handler")
       => LET q == last_call'.skill IN
          /\ last_call'.ret =
                IF q \in Skills /\ handlers[q] # None THEN handlers[q]
                ELSE IF default_handler # None THEN default_handler
                ELSE None
          /\ UNCHANGED <<handlers, default_handler>>]_vars

\* a lookup fell back to the default although another skill has a handler
C23_Witness ==
    /\ last_call.op = "get_handler"
    /\ last_call.skill = "nosuch"
    /\ handlers["nosuch"] = None
    /\ handlers["echo"] = "echo_handler"
    /\ default_handler = "h1"
    /\ last_call.ret = "h1"

\* C24: registering a handler that is no coroutine function changes nothing in
\* the registry, and no such handler is ever registered, returned by
\* get_handler or called by a send.
C24_SyncHandlerRejected ==
    [][/\ ( /\ router_calls' = router_calls + 1
            /\ last_call'.op \in {"register_handler", "register_default_handler"}
            /\ last_call'.handler \in SyncHandlers )
          => UNCHANGED <<handlers, default_handler>>
       /\ \A s \in Skills : handlers'[s] \notin SyncHandlers
       /\ default_handler' \notin SyncHandlers
       /\ last_call'.ret \notin SyncHandlers
       /\ invoked' \cap SyncHandlers = {}]_vars

\* a plain function was offered for a skill that keeps its handler h1, and a
\* send was routed to h1
C24_Witness ==
    /\ last_call.op = "register_handler"
    /\ last_call.handler = "sync_fn"
    /\ last_call.old = "h1"
    /\ handlers[last_call.skill] = "h1"
    /\ "h1" \in invoked

\* C25: every stop() that has started comes to its end.
C25_StopReturns ==
    \A s \in Stoppers :
        (stopper[s].pc \notin {"idle", "done"}) ~> (stopper[s].pc = "done")

\* the run tasks that exist and have not ended
ActiveRunTasks == {t \in RunTaskNos : run_tasks[t].pc \notin {"none", "done"}}

\* C26: a start() while the run task is active changes nothing; there is never
\* more than one run task that has not ended; the agent is registered with the
\* registry at most once and each skill handler with the router at most once.
C26_StartIsIdempotent ==
    [][/\ (start_calls' = start_calls + 1 /\ RunTaskActive)
          => UNCHANGED <<agent_status, stop_event, internal_task_queue,
                         run_task, run_tasks, registered, handlers_registered,
                         registry_count, router_count, stopper>>
       /\ Cardinality(ActiveRunTasks') <= 1
       /\ registry_count' <= 1
       /\ \A k \in AgentSkills : router_count'[k] <= 1]_vars

\* a second start() found the run task of the first one waiting on the queue
C26_Witness ==
    /\ start_calls = 2
    /\ run_task = 1
    /\ run_tasks[1].pc = "get_wait"
    /\ registry_count = 1
    /\ \A k \in AgentSkills : router_count[k] = 1

C29_FailedHasMessage ==
    /\ \A id \in TaskIds :
          /\ (tasks[id] # NoTask /\ tasks[id].status.state \in TerminalStates)
             => tasks[id].status # NoStatus
          /\ (tasks[id] # NoTask /\ tasks[id].status.state = "failed")
             => tasks[id].status.message # None
    /\ \A q \in Procs :
          ( /\ op[q] \in {"send", "sub"} /\ pc[q] = "done"
            /\ \/ outcome[q].kind = "raised"
               \/ outcome[q].kind = "returned" /\ outcome[q].state = "failed"
            /\ \A r \in Procs \ {q} :
                  ~(op[r] \in {"send", "sub"} /\ tid[r] = tid[q]) )
          => /\ tasks[tid[q]].status.state = "failed"
             /\ tasks[tid[q]].status.message # None

\* the entry of a server in the session table (0: no entry)
SessionEntry(n) == IF Has(sessions, n) THEN Get(sessions, n) ELSE 0

\* C30: the entry of a server in the session table or in the context table
\* changes only in a step of the connection task that holds the lock of that
\* server, whether the change is made by _connect or by close_all.
C30_TablesChangeUnderLock ==
    [][\A n \in ServerNames :
          (SessionEntry(n)' # SessionEntry(n) \/ contexts'[n] # contexts[n])
          => \E t \in TaskNos :
                /\ connect_task[t].name = n
                /\ Len(locks[n]) > 0 /\ locks[n][1] = t
                /\ connect_task'[t] # connect_task[t]]_vars

\* C31: while the handler of a dequeued item runs the status is busy, and the
\* step in which the handler ends increments exactly one of
\* completed_task_count and error_count by one and leaves the status idle
\* with the loop going on (stopped with the loop ended when stop() was
\* called).
C31_BusyThenIdleAndCounted ==
    /\ [](\A t \in RunTaskNos : run_tasks[t].pc = "exec" => agent_status = "busy")
    /\ [][\A t \in RunTaskNos :
            (run_tasks[t].pc = "exec" /\ run_tasks'[t].pc # "exec")
            => /\ completed_task_count' + error_count'
                     = completed_task_count + error_count + 1
               /\ completed_task_count' >= completed_task_count
               /\ error_count' >= error_count
               /\ IF stop_event
                  THEN agent_status' = "stopped" /\ run_tasks'[t].pc = "done"
                  ELSE agent_status' = "idle" /\ run_tasks'[t].pc = "get_wait"]_vars

\* C39: no receive_internal_task waits for queue space, and the run loop
\* never waits in `finally` for a lock whose holder waits for queue space.
C39_FullQueueDiscards ==
    /\ \A q \in Producers : producer[q].pc # "put_wait"
    /\ ~\E t \in RunTaskNos, q \in Producers :
           /\ run_tasks[t].pc = "idle_lockwait"
           /\ producer[q].pc = "put_wait"
           /\ Head(agent_lock) = q

\* C40: the step in which the run loop takes the sentinel from the queue
\* leaves the status as it is or sets it to stopped, never busy or error,
\* and a run task that begins to run finds no sentinel in the queue.
C40_SentinelOnlyUnblocks ==
    [][/\ internal_task_queue'.sentinels < internal_task_queue.sentinels
          => agent_status' \in {agent_status, "stopped"}
       /\ \A t \in RunTaskNos :
             (run_tasks[t].pc = "created" /\ run_tasks'[t].pc = "get_wait")
             => internal_task_queue.sentinels = 0]_vars

\* C33: every operation of the Task Manager that has started (send,
\* send_subscribe, get, cancel, a removal of the sweep) comes to its end,
\* under any interleaving, when the handlers terminate.
C33_EveryOperationCompletes ==
    \A p \in Procs : (pc[p] # "idle") ~> (pc[p] = "done")

\* a removal waited for the lock of an id that a send_subscribe held, and
\* every client has finished
C33_Witness ==
    /\ \A p \in Procs : pc[p] = "done"
    /\ \E p \in Procs, q \in Procs :
          /\ op[p] = "remove" /\ op[q] = "sub" /\ tid[p] = tid[q]
          /\ outcome[q].kind # None

\* C32: once a cancel has gone through on a task (it found the task and
\* returned it) and no other request works on the id, the step in which a
\* send or send_subscribe stores the result or the failure of its handler
\* leaves the stored status canceled and the artifacts empty.
C32_CanceledSurvivesHandler ==
    [][\A p \in Procs, c \in Procs :
          ( /\ pc[p] \in {"send_cs2", "sub_cs2"} /\ pc'[p] # pc[p]
            /\ op[c] = "cancel" /\ tid[c] = tid[p]
            /\ pc[c] = "done" /\ ret[c].kind = "task"
            /\ OnlyOn(tid[p], {p, c}) )
          => /\ tasks'[tid[p]].status.state = "canceled"
             /\ tasks'[tid[p]].artifacts = <<>>]_vars

\* the requests in flight are sends and send_subscribes of pairwise distinct ids
SendsOfDistinctIds ==
    /\ \A p \in Procs : op[p] \in {None, "send", "sub"}
    /\ \A p \in Procs, q \in Procs :
          (p # q /\ tid[p] # None /\ tid[q] # None) => tid[p] # tid[q]

\* C34: under interleaved sends of distinct ids no counter update is lost:
\* every step that writes the received, completed or failed counter leaves
\* the counter it writes one higher than it was.
C34_NoLostMetricUpdate ==
    [][\A p \in Procs :
          ( /\ SendsOfDistinctIds
            /\ pc[p] \in {"m1w", "send_m2w", "sub_m2w"} /\ pc'[p] # pc[p] )
          => \E k \in {"received", "completed", "failed"} :
                metrics'[k] = metrics[k] + 1]_vars

\* the finished requests whose handler ran and failed: it raised, or it
\* returned the status failed
FailedExecutions ==
    {p \in Procs : /\ op[p] \in {"send", "sub"} /\ pc[p] = "done"
                    /\ \/ outcome[p].kind = "raised"
                       \/ outcome[p].kind = "returned" /\ outcome[p].state = "failed"}

\* the dead-letter entries written for a handler that ran
HandlerEntries ==
    SelectSeq(a2a_dlq, LAMBDA e : e[3] \in {"handler exception", "handler failed",
                                            "stream handler failed"})

\* C35: with no request in flight, the dead-letter queue holds exactly one
\* entry per failed handler execution, through send and through
\* send_subscribe, and none for an execution that completed.
C35_OneEntryPerFailure ==
    (\A p \in Procs : pc[p] \in {"idle", "done"})
        => Len(HandlerEntries) = Cardinality(FailedExecutions)

\* C36: when a send_subscribe whose handler ran has finished and no other
\* request works on its id, the stored status is the status of the final
\* event of its stream and the stored artifacts are the ones the handler
\* returned, none when it raised.
C36_StoredMatchesFinalEvent ==
    \A p \in Procs :
        ( /\ op[p] = "sub" /\ pc[p] = "done" /\ outcome[p].kind # None
          /\ OnlyOn(tid[p], {p}) )
        => /\ tasks[tid[p]].status.state = sink[p][Len(sink[p])].state
           /\ tasks[tid[p]].artifacts =
                 (IF outcome[p].kind = "returned" THEN outcome[p].artifacts ELSE <<>>)

\* C37: a get or a cancel of an id without a task record fails with "not
\* found" and leaves the manager as it was: when such a request has finished
\* and nothing but gets and cancels ever named the id, the id has no task
\* record and no entry in the table of per-task locks.
C37_UnknownIdLeavesNoTrace ==
    \A p \in Procs :
        ( /\ op[p] \in {"get", "cancel"} /\ pc[p] = "done"
          /\ \A q \in Procs : tid[q] = tid[p] =>
                 op[q] \in {"get", "cancel"} /\ pc[q] = "done" )
        => /\ ret[p] = A2AError(-32001)
           /\ tasks[tid[p]] = NoTask
           /\ task_locks[tid[p]] = 0

\* no call of the MCP client manager other than close_all is in progress
NoOtherCall ==
    /\ \A c \in Callers : caller[c].pc \in {"idle", "ret"}
    /\ \A t \in TaskNos : connect_task[t].pc \in {"none", "done"}

\* C38: when close_all returns and no other call is in progress, the tables
\* of sessions, contexts and connection attempts are empty, also when a
\* teardown raised.
C38_CloseAllEmptiesTables ==
    [][( /\ closer.pc # "done" /\ closer'.pc = "done" /\ closer'.res = "closed"
         /\ NoOtherCall /\ NoOtherCall' )
       => /\ sessions' = <<>>
          /\ \A n \in ServerNames : contexts'[n] = 0
          /\ connection_tasks' = <<>>]_vars

====
